---- MODULE Spec2Model ----
(***************************************************************************)
(* A model of the torq command line tool (src/src/torq.py, config.py,      *)
(* utils.py) and of the capture session it drives.                         *)
(*                                                                         *)
(* The module holds several independent state machines, one per program    *)
(* component, each with its own specification:                             *)
(*   SpecWait     utils.wait_for_output                                    *)
(*   SpecSignal   utils.wait_for_process_or_ctrl_c                         *)
(*   SpecConvert  utils.convert_simpleperf_to_gecko / run_subprocess       *)
(*   SpecRun      torq.run (parse, verify, build command, execute)         *)
(*   SpecSession  the multi-run capture session of the profiler command    *)
(*   SpecTrigger  one capture: the trigger wait, the stop, the retrieval     *)
(*   SpecCatalog  config.execute_config_command, several times in a process  *)
(*   SpecSubparser utils.set_default_subparser                               *)
(*   SpecSubprocess utils.run_subprocess                                     *)
(* A specification leaves the variables of the other components at their   *)
(* idle values.                                                            *)
(***************************************************************************)
EXTENDS Integers, Sequences, FiniteSets, TLC

VARIABLES
  \* ---- utils.wait_for_output ----
  w_pc,         \* "start" | "test" | "read" | "returned" | "raised"
  w_now,        \* time.time(), in whole ticks
  w_start,      \* start_time
  w_timeout,    \* timeout argument
  w_pattern,    \* pattern argument (a str)
  w_lines,      \* the lines read so far: [line, begin, at]
  w_result,     \* the value returned: TRUE = timed out
  w_stderr,     \* process.stderr: "pipe" | "None"
  \* ---- utils.wait_for_process_or_ctrl_c ----
  s_pc,         \* "install_int" | "install_term" | "wait" | "print" |
                \* "returned" | "exited" | "interrupted" | "terminated"
  s_handler,    \* the installed handler of each signal: "default" | "handler"
  s_hpc,        \* where signal_handler stands: "none" | "print" | "kill" | "exit"
  s_child,      \* the child process: "running" | "exited" | "killed"
  s_events,     \* what happened so far, in order
  \* ---- utils.convert_simpleperf_to_gecko ----
  c_pc,         \* "idle" | "stage1" | "stage2" | "check" | "returned" | "raised"
  c_args,       \* the arguments: scripts_path, raw, gecko, symbols
  c_file,       \* the gecko output file exists on the host
  c_calls,      \* the subprocesses run so far: [cmd, rc]
  c_error,      \* the exception raised: "none" | "CalledProcessError" |
                \* "Gecko file was not created."
  \* ---- torq.run ----
  r_pc,         \* "verify" | "print_error" | "get_command" | "device" |
                \* "execute" | "print_exec_error" | "returned" | "raised"
  r_parsed,     \* what parser.parse_args() handed back
  r_args,       \* the local `args` (None once verify_args refused them)
  r_error,      \* the error verify_args returned, "None" when none
  r_command,    \* the command get_command built, "None" when none
  r_device,     \* the serials AdbDevice was constructed with, in order
  r_devcalls,   \* the device calls issued, in order
  r_exec_error, \* the error command.execute returned, "None" when none
  r_printed,    \* the errors printed, in order
  \* ---- the capture session (SessionOrchestrator) ----
  o_pc,         \* "start" | "CONNECT" | "ELEVATE" | "CAPTURE" | "RETRIEVE" |
                \* "CONVERT" | "CONVERTING" | "PRESENT" | "DONE" | "sleep" |
                \* "summary" | "end" | "crashed" | "cancelled"
  o_command,    \* the validated Command
  o_run,        \* the index of the run in progress, from 1
  o_outcome,    \* the outcome of the run in progress so far
  o_artifact,   \* the artifact the run in progress retrieved, "none" if none
  o_results,    \* the RunResults so far, in order
  o_log,        \* the phases entered and the sleeps taken, in order
  o_summary,    \* the session summary was reported
  \* ---- one capture (TriggerCoordinator, ArtifactPipeline.retrieve) ----
  t_pc,         \* "idle" | "waiting" | "delaying" | "stopped" | "retrieved"
  t_spec,       \* the TriggerSpec, or the plain duration: mode, names,
                \* delays, timeout
  t_now,        \* the time since the backend was armed, in ticks
  t_fired,      \* the firings observed, in order: [name, at]
  t_due,        \* when the stop delay of the last firing is over
  t_stops,      \* the stops of the backend and the snapshots: [kind, at]
  t_suffix,     \* the clone suffix counter of the session
  t_files,      \* the trace files on the device, in order
  t_pulled,     \* the files pulled to the host, in order
  t_outcome,    \* "none" | "success" | "timed-out"
  \* ---- config.execute_config_command ----
  k_pc,         \* "idle" | "ready" | the exception raised:
                \* "CalledProcessError" | "ValueError"
  k_configs,    \* the keys of PREDEFINED_PERFETTO_CONFIGS, in order
  k_log,        \* the commands executed so far: [type, name, printed, error]
  k_last,       \* what the command executed last did: [type, connection,
                \* calls, sdk, printed, written, error]
  \* ---- utils.set_default_subparser ----
  p_pc,         \* "idle" | "scan" | "lookup" | "returned"
  p_orig,       \* sys.argv at the call
  p_argv,       \* sys.argv
  p_idx,        \* idx
  p_insertion_idx,  \* insertion_idx
  p_found,      \* is_non_global_option_found
  p_error,      \* the value returned: "None" or the ValidationError message
  p_calls,      \* the calls made before this one
  \* ---- utils.run_subprocess ----
  u_pc,         \* "idle" | "run" | "check" | "returned" | "raised"
  u_ignore,     \* ignore_returncodes
  u_capture,    \* capture_output
  u_returncode, \* output.returncode, None until subprocess.run is back
  u_value       \* what the call handed back or raised, "none" until then

wvars == <<w_pc, w_now, w_start, w_timeout, w_pattern, w_lines, w_result, w_stderr>>

svars == <<s_pc, s_handler, s_hpc, s_child, s_events>>

cvars == <<c_pc, c_args, c_file, c_calls, c_error>>

rvars == <<r_pc, r_parsed, r_args, r_error, r_command, r_device, r_devcalls,
           r_exec_error, r_printed>>

ovars == <<o_pc, o_command, o_run, o_outcome, o_artifact, o_results, o_log,
           o_summary>>

tvars == <<t_pc, t_spec, t_now, t_fired, t_due, t_stops, t_suffix, t_files,
           t_pulled, t_outcome>>

kvars == <<k_pc, k_configs, k_log, k_last>>

pvars == <<p_pc, p_orig, p_argv, p_idx, p_insertion_idx, p_found, p_error,
           p_calls>>

uvars == <<u_pc, u_ignore, u_capture, u_returncode, u_value>>

vars == <<wvars, svars, cvars, rvars, ovars, tvars, kvars, pvars, uvars>>

\* What an action of one component leaves alone: the other components.
NotWait == <<svars, cvars, rvars, ovars, tvars, kvars, pvars, uvars>>
NotSignal == <<wvars, cvars, rvars, ovars, tvars, kvars, pvars, uvars>>
NotConvert == <<wvars, svars, rvars, ovars, tvars, kvars, pvars, uvars>>
NotRun == <<wvars, svars, cvars, ovars, tvars, kvars, pvars, uvars>>
NotSession == <<wvars, svars, rvars, tvars, kvars, pvars, uvars>>
NotTrigger == <<wvars, svars, cvars, rvars, ovars, kvars, pvars, uvars>>
NotCatalog == <<wvars, svars, cvars, rvars, ovars, tvars, pvars, uvars>>
NotSubparser == <<wvars, svars, cvars, rvars, ovars, tvars, kvars, uvars>>
NotSubprocess == <<wvars, svars, cvars, rvars, ovars, tvars, kvars, pvars>>

(***************************************************************************)
(* utils.wait_for_output                                                   *)
(***************************************************************************)

\* Most lines one call reads in the model.
MaxReads == 2
\* Longest time one readline() blocks.
MaxBlock == 2
\* Largest timeout argument.
MaxTimeout == 2
\* Latest time the call may start at.
MaxStart == 1

\* Byte values of the child's output: 'a', 'b' and a byte that is not UTF-8.
ByteA == 97
ByteB == 98
ByteBad == 255

\* The lines readline() may hand back; <<>> is what it returns at end of file.
OutputLines ==
  { <<>>, <<ByteA>>, <<ByteB>>, <<ByteA, ByteB>>, <<ByteB, ByteA>>, <<ByteBad>> }

\* The patterns a caller may wait for.
Patterns == { <<>>, <<"a">>, <<"b">>, <<"a", "b">> }

\* bytes.decode() raises UnicodeDecodeError on a byte that is not UTF-8.
Decodable(line) == \A i \in DOMAIN line : line[i] # ByteBad

\* bytes.decode(): each ASCII byte to its character.
DecodeByte(b) == IF b = ByteA THEN "a" ELSE "b"

Decode(line) == [i \in DOMAIN line |-> DecodeByte(line[i])]

\* Python's `pattern in text` on strings: pattern occurs as a substring.
Contains(pattern, text) ==
  \E i \in 0..(Len(text) - Len(pattern)) :
    SubSeq(text, i + 1, i + Len(pattern)) = pattern

\* The loop condition `time.time() - start_time < timeout`.
WithinBudget(now, start, timeout) == now - start < timeout

WaitIdle ==
  /\ w_pc = "idle"
  /\ w_now = 0
  /\ w_start = 0
  /\ w_timeout = 0
  /\ w_pattern = <<>>
  /\ w_lines = <<>>
  /\ w_result = FALSE
  /\ w_stderr = "pipe"

\* A call wait_for_output(pattern, process, timeout) is about to start.
WaitInit ==
  /\ w_pc = "start"
  /\ w_now \in 0..MaxStart
  /\ w_start = 0
  /\ w_timeout \in -1..MaxTimeout
  /\ w_pattern \in Patterns
  /\ w_lines = <<>>
  /\ w_result = FALSE
  /\ w_stderr = "pipe"

\* start_time = time.time()
WaitStart ==
  /\ w_pc = "start"
  /\ w_start' = w_now
  /\ w_pc' = "test"
  /\ UNCHANGED <<w_now, w_timeout, w_pattern, w_lines, w_result, w_stderr>>
  /\ UNCHANGED NotWait

\* while time.time() - start_time < timeout: ... else fall through to
\* `return True`.
WaitTestAfterRead ==
  /\ w_pc = "test"
  /\ IF WithinBudget(w_now, w_start, w_timeout) \/ w_lines = <<>>
       THEN /\ Len(w_lines) < MaxReads
            /\ w_pc' = "read"
            /\ UNCHANGED w_result
       ELSE /\ w_pc' = "returned"
            /\ w_result' = TRUE
  /\ UNCHANGED <<w_now, w_start, w_timeout, w_pattern, w_lines, w_stderr>>
  /\ UNCHANGED NotWait

WaitTest ==
  /\ w_pc = "test"
  /\ IF WithinBudget(w_now, w_start, w_timeout)
       THEN /\ Len(w_lines) < MaxReads
            /\ w_pc' = "read"
            /\ UNCHANGED w_result
       ELSE /\ w_pc' = "returned"
            /\ w_result' = TRUE
  /\ UNCHANGED <<w_now, w_start, w_timeout, w_pattern, w_lines, w_stderr>>
  /\ UNCHANGED NotWait

\* line = process.stdout.readline(): blocks for d ticks, then hands back a
\* line; `if pattern in line.decode()`: clear stderr and return False.
WaitReadNoReturn ==
  /\ w_pc = "read"
  /\ \E line \in OutputLines, d \in 0..MaxBlock :
       /\ w_now' = w_now + d
       /\ w_lines' = Append(w_lines, [line |-> line, begin |-> w_now, at |-> w_now + d])
       /\ IF ~Decodable(line)
            THEN /\ w_pc' = "raised"
                 /\ UNCHANGED <<w_result, w_stderr>>
            ELSE /\ w_pc' = "test"
                 /\ UNCHANGED <<w_result, w_stderr>>
  /\ UNCHANGED <<w_start, w_timeout, w_pattern>>
  /\ UNCHANGED NotWait

WaitRead ==
  /\ w_pc = "read"
  /\ \E line \in OutputLines, d \in 0..MaxBlock :
       /\ w_now' = w_now + d
       /\ w_lines' = Append(w_lines, [line |-> line, begin |-> w_now, at |-> w_now + d])
       /\ IF ~Decodable(line)
            THEN /\ w_pc' = "raised"
                 /\ UNCHANGED <<w_result, w_stderr>>
            ELSE IF Contains(w_pattern, Decode(line))
              THEN /\ w_pc' = "returned"
                   /\ w_result' = FALSE
                   /\ w_stderr' = "None"
              ELSE /\ w_pc' = "test"
                   /\ UNCHANGED <<w_result, w_stderr>>
  /\ UNCHANGED <<w_start, w_timeout, w_pattern>>
  /\ UNCHANGED NotWait

WaitNext == WaitStart \/ WaitTest \/ WaitRead

(***************************************************************************)
(* utils.wait_for_process_or_ctrl_c                                        *)
(***************************************************************************)

\* Most signals delivered to the program in one behaviour.
MaxSignals == 2

Signals == {"SIGINT", "SIGTERM"}

\* Positions at which the program has ended.
ProgramEnded == {"exited", "interrupted", "terminated"}

SignalsDelivered ==
  Cardinality({i \in DOMAIN s_events : s_events[i].ev = "signal"})

SignalIdle ==
  /\ s_pc = "idle"
  /\ s_handler = [sig \in Signals |-> "default"]
  /\ s_hpc = "none"
  /\ s_child = "running"
  /\ s_events = <<>>

\* A call wait_for_process_or_ctrl_c(process) is about to start; the child may
\* have exited already. No handler is installed yet.
SignalInit ==
  /\ s_pc = "install_int"
  /\ s_handler = [sig \in Signals |-> "default"]
  /\ s_hpc = "none"
  /\ s_child \in {"running", "exited"}
  /\ s_events = <<>>

\* signal.signal(signal.SIGINT, signal_handler)
InstallSigint ==
  /\ s_pc = "install_int"
  /\ s_hpc = "none"
  /\ s_handler' = [s_handler EXCEPT !["SIGINT"] = "handler"]
  /\ s_pc' = "install_term"
  /\ UNCHANGED <<s_hpc, s_child, s_events>>
  /\ UNCHANGED NotSignal

\* signal.signal(signal.SIGTERM, signal_handler)
InstallSigterm ==
  /\ s_pc = "install_term"
  /\ s_hpc = "none"
  /\ s_handler' = [s_handler EXCEPT !["SIGTERM"] = "handler"]
  /\ s_pc' = "wait"
  /\ UNCHANGED <<s_hpc, s_child, s_events>>
  /\ UNCHANGED NotSignal

\* process.wait() returns once the child is no longer running.
ProcessWaitNeverBlocks ==
  /\ s_pc = "wait"
  /\ s_hpc = "none"
  /\ s_pc' = "print"
  /\ UNCHANGED <<s_handler, s_hpc, s_child, s_events>>
  /\ UNCHANGED NotSignal

ProcessWait ==
  /\ s_pc = "wait"
  /\ s_hpc = "none"
  /\ s_child # "running"
  /\ s_pc' = "print"
  /\ UNCHANGED <<s_handler, s_hpc, s_child, s_events>>
  /\ UNCHANGED NotSignal

\* print("Process was killed.") and return to the caller; the handlers stay
\* installed.
PrintAndReturnRestores ==
  /\ s_pc = "print"
  /\ s_hpc = "none"
  /\ s_pc' = "returned"
  /\ s_handler' = [sig \in Signals |-> "default"]
  /\ s_events' = Append(s_events, [ev |-> "return", sig |-> "none", at |-> s_pc])
  /\ UNCHANGED <<s_hpc, s_child>>
  /\ UNCHANGED NotSignal

PrintAndReturn ==
  /\ s_pc = "print"
  /\ s_hpc = "none"
  /\ s_pc' = "returned"
  /\ s_events' = Append(s_events, [ev |-> "return", sig |-> "none", at |-> s_pc])
  /\ UNCHANGED <<s_handler, s_hpc, s_child>>
  /\ UNCHANGED NotSignal

\* The child exits on its own.
ChildExits ==
  /\ s_pc # "idle"
  /\ s_child = "running"
  /\ s_child' = "exited"
  /\ UNCHANGED <<s_pc, s_handler, s_hpc, s_events>>
  /\ UNCHANGED NotSignal

\* The operating system delivers SIGINT or SIGTERM to the program. With
\* signal_handler installed the handler starts, on top of whatever runs (a
\* running handler included); with the default disposition SIGINT raises
\* KeyboardInterrupt and SIGTERM ends the program at once.
DeliverSignal ==
  /\ s_pc \notin ProgramEnded \cup {"idle"}
  /\ SignalsDelivered < MaxSignals
  /\ \E sig \in Signals :
       /\ s_events' = Append(s_events, [ev |-> "signal", sig |-> sig, at |-> s_pc])
       /\ IF s_handler[sig] = "handler"
            THEN /\ s_hpc' = "print"
                 /\ UNCHANGED s_pc
            ELSE /\ s_pc' = IF sig = "SIGINT" THEN "interrupted" ELSE "terminated"
                 /\ UNCHANGED s_hpc
  /\ UNCHANGED <<s_handler, s_child>>
  /\ UNCHANGED NotSignal

\* signal_handler: print("Exiting...")
HandlerPrint ==
  /\ s_pc \notin ProgramEnded
  /\ s_hpc = "print"
  /\ s_hpc' = "kill"
  /\ UNCHANGED <<s_pc, s_handler, s_child, s_events>>
  /\ UNCHANGED NotSignal

\* signal_handler: process.kill(), which does nothing to a child that has
\* exited.
HandlerKill ==
  /\ s_pc \notin ProgramEnded
  /\ s_hpc = "kill"
  /\ s_child' = IF s_child = "running" THEN "killed" ELSE s_child
  /\ s_events' = Append(s_events, [ev |-> "kill", sig |-> "none", at |-> s_pc])
  /\ s_hpc' = "exit"
  /\ UNCHANGED <<s_pc, s_handler>>
  /\ UNCHANGED NotSignal

\* signal_handler: sys.exit()
HandlerExit ==
  /\ s_pc \notin ProgramEnded
  /\ s_hpc = "exit"
  /\ s_pc' = "exited"
  /\ s_hpc' = "none"
  /\ s_events' = Append(s_events, [ev |-> "exit", sig |-> "none", at |-> s_pc])
  /\ UNCHANGED <<s_handler, s_child>>
  /\ UNCHANGED NotSignal

SignalNext ==
  \/ InstallSigint
  \/ InstallSigterm
  \/ ProcessWait
  \/ PrintAndReturn
  \/ ChildExits
  \/ DeliverSignal
  \/ HandlerPrint
  \/ HandlerKill
  \/ HandlerExit

(***************************************************************************)
(* utils.run_subprocess, utils.path_exists, utils.convert_simpleperf_to_gecko *)
(***************************************************************************)

\* class ShellExitCodes
EX_SUCCESS == 0
EX_FAILURE == 1
EX_NOEXEC == 126
EX_NOTFOUND == 127

\* The return codes a shell command ends with.
ReturnCodes == {EX_SUCCESS, EX_FAILURE, EX_NOEXEC, EX_NOTFOUND}

\* A path is its sequence of components; a leading "~" is the user's home.
HomeDir == "/home/user"

\* os.path.expanduser
ExpandUser(path) ==
  IF path # <<>> /\ Head(path) = "~" THEN <<HomeDir>> \o Tail(path) ELSE path

\* The paths a caller may pass as scripts_path and as symbols.
ScriptsPaths == { <<"~", "scripts">>, <<"/scripts">> }
SymbolsPaths == { <<"~", "symbols">>, <<"/symbols">>, <<"~">> }

RawTraceFile == <<"/out", "perf.data">>
GeckoTraceFile == <<"/out", "perf.json">>

\* run_subprocess with a return code, ignore_returncodes and capture_output:
\* check_returncode() raises CalledProcessError on a non-zero code that is
\* not ignored; otherwise the output is returned when captured, None when not.
RunSubprocessNeverRaises(returncode, ignore_returncodes, capture_output) ==
  [raised |-> FALSE,
   value |-> IF capture_output THEN "output" ELSE "None"]

RunSubprocessIgnoresNothing(returncode, ignore_returncodes, capture_output) ==
  IF returncode # 0
    THEN [raised |-> TRUE, value |-> "CalledProcessError"]
    ELSE [raised |-> FALSE,
          value |-> IF capture_output THEN "output" ELSE "None"]

RunSubprocess(returncode, ignore_returncodes, capture_output) ==
  IF returncode # 0 /\ returncode \notin ignore_returncodes
    THEN [raised |-> TRUE, value |-> "CalledProcessError"]
    ELSE [raised |-> FALSE,
          value |-> IF capture_output THEN "output" ELSE "None"]

\* path_exists(path) with `exists` what os.path.exists says of the expanded
\* path.
PathExists(path, exists) == IF path = "None" THEN FALSE ELSE exists

\* The command line of stage 1: binary_cache_builder.py -i raw -lib symbols.
Stage1Command(args) ==
  [tool |-> "binary_cache_builder.py",
   pythonpath |-> ExpandUser(args.scripts_path),
   dir |-> ExpandUser(args.scripts_path),
   input |-> args.raw,
   lib |-> ExpandUser(args.symbols),
   out |-> "None"]

\* The command line of stage 2: gecko_profile_generator.py -i raw > gecko.
Stage2Command(args) ==
  [tool |-> "gecko_profile_generator.py",
   pythonpath |-> ExpandUser(args.scripts_path),
   dir |-> ExpandUser(args.scripts_path),
   input |-> args.raw,
   lib |-> "None",
   out |-> args.gecko]

NoArgs == [scripts_path |-> <<>>, raw |-> <<>>, gecko |-> <<>>, symbols |-> <<>>]

ConvertIdle ==
  /\ c_pc = "idle"
  /\ c_args = NoArgs
  /\ c_file = FALSE
  /\ c_calls = <<>>
  /\ c_error = "none"

\* A call convert_simpleperf_to_gecko(scripts_path, raw, gecko, symbols) is
\* about to start; the gecko file may be there already.
ConvertInit ==
  /\ c_pc = "stage1"
  /\ \E sp \in ScriptsPaths, sy \in SymbolsPaths :
       c_args = [scripts_path |-> sp, raw |-> RawTraceFile,
                 gecko |-> GeckoTraceFile, symbols |-> sy]
  /\ c_file \in BOOLEAN
  /\ c_calls = <<>>
  /\ c_error = "none"

\* Variants of stage 1: one that leaves the builder out, one that goes on to
\* stage 2 whatever the builder's exit code.
ConvertStage1Skipped ==
  /\ c_pc = "stage1"
  /\ c_pc' = "stage2"
  /\ UNCHANGED <<c_args, c_file, c_calls, c_error>>
  /\ UNCHANGED NotConvert

ConvertStage1Continues ==
  /\ c_pc = "stage1"
  /\ \E rc \in ReturnCodes :
       c_calls' = Append(c_calls, [cmd |-> Stage1Command(c_args), rc |-> rc])
  /\ c_pc' = "stage2"
  /\ UNCHANGED <<c_args, c_file, c_error>>
  /\ UNCHANGED NotConvert

\* run_subprocess(binary_cache_builder ..., shell=True)
ConvertStage1 ==
  /\ c_pc = "stage1"
  /\ \E rc \in ReturnCodes :
       /\ c_calls' = Append(c_calls, [cmd |-> Stage1Command(c_args), rc |-> rc])
       /\ IF RunSubprocess(rc, {}, FALSE).raised
            THEN /\ c_pc' = "raised"
                 /\ c_error' = "CalledProcessError"
            ELSE /\ c_pc' = "stage2"
                 /\ UNCHANGED c_error
  /\ UNCHANGED <<c_args, c_file>>
  /\ UNCHANGED NotConvert

\* run_subprocess(gecko_profile_generator ... > gecko, shell=True); whether
\* the output file is there afterwards is up to the shell and the script.
ConvertStage2 ==
  /\ c_pc = "stage2"
  /\ \E rc \in ReturnCodes, exists \in BOOLEAN :
       /\ c_calls' = Append(c_calls, [cmd |-> Stage2Command(c_args), rc |-> rc])
       /\ c_file' = exists
       /\ IF RunSubprocess(rc, {}, FALSE).raised
            THEN /\ c_pc' = "raised"
                 /\ c_error' = "CalledProcessError"
            ELSE /\ c_pc' = "check"
                 /\ UNCHANGED c_error
  /\ UNCHANGED c_args
  /\ UNCHANGED NotConvert

\* if not path_exists(host_gecko_trace_filename): raise Exception(...)
ConvertCheckNeverRaises ==
  /\ c_pc = "check"
  /\ c_pc' = "returned"
  /\ UNCHANGED <<c_args, c_file, c_calls, c_error>>
  /\ UNCHANGED NotConvert

ConvertCheck ==
  /\ c_pc = "check"
  /\ IF ~PathExists(c_args.gecko, c_file)
       THEN /\ c_pc' = "raised"
            /\ c_error' = "Gecko file was not created."
       ELSE /\ c_pc' = "returned"
            /\ UNCHANGED c_error
  /\ UNCHANGED <<c_args, c_file, c_calls>>
  /\ UNCHANGED NotConvert

ConvertNext == ConvertStage1 \/ ConvertStage2 \/ ConvertCheck

\* ---------------------------------------------------------------------------
\* utils.run_subprocess, called on its own

\* The lists a caller may pass as ignore_returncodes; the default is [].
IgnoreReturncodes == SUBSET ReturnCodes

SubprocessIdle ==
  /\ u_pc = "idle"
  /\ u_ignore = {}
  /\ u_capture = FALSE
  /\ u_returncode = <<>>
  /\ u_value = "none"

\* A call run_subprocess(args, ignore_returncodes, capture_output=...) is
\* about to start.
SubprocessInit ==
  /\ u_pc = "run"
  /\ u_ignore \in IgnoreReturncodes
  /\ u_capture \in BOOLEAN
  /\ u_returncode = <<>>
  /\ u_value = "none"

\* output = subprocess.run(args, ..., check=False): the child ends with some
\* return code and nothing is raised for it here.
SubprocessRun ==
  /\ u_pc = "run"
  /\ \E rc \in ReturnCodes : u_returncode' = <<rc>>
  /\ u_pc' = "check"
  /\ UNCHANGED <<u_ignore, u_capture, u_value>>
  /\ UNCHANGED NotSubprocess

\* if output.returncode and output.returncode not in ignore_returncodes:
\*   output.check_returncode()
\* if capture_output: return output
\* return None
SubprocessReturn ==
  /\ u_pc = "check"
  /\ LET r == RunSubprocess(u_returncode[1], u_ignore, u_capture)
     IN /\ u_pc' = IF r.raised THEN "raised" ELSE "returned"
        /\ u_value' = r.value
  /\ UNCHANGED <<u_ignore, u_capture, u_returncode>>
  /\ UNCHANGED NotSubprocess

SubprocessNext == SubprocessRun \/ SubprocessReturn

(***************************************************************************)
(* torq.verify_args, config.verify_config_args, torq.get_command, torq.run *)
(***************************************************************************)

\* Most trigger names given on the command line.
MaxTriggerNames == 2
\* Most --trigger-stop-delay-ms values given on the command line.
MaxStopDelays == 3
\* Largest --runs value given on the command line.
MaxRunsArg == 2

TriggerNamePool == <<"team.package.test-trigger-name",
                     "team2.package2.test-trigger-name2",
                     "team3.package3.test-trigger-name3",
                     "team4.package4.test-trigger-name4">>

\* The i-th stop delay given on the command line, in ms.
StopDelayValue(i) == 1000 * i

\* An option that was not given is None. A list option (nargs='+') is None or
\* a list of one or more values, and None is written as the empty list here;
\* a number option is written as the list of its value, None as the empty
\* list.
None == <<>>

\* --trigger-names: None, or one or more names.
TriggerNameArgs ==
  {None} \cup {SubSeq(TriggerNamePool, 1, n) : n \in 1..MaxTriggerNames}

\* --trigger-stop-delay-ms: None, or one or more values.
StopDelayArgs ==
  {None} \cup {[i \in 1..n |-> StopDelayValue(i)] : n \in 1..MaxStopDelays}

TriggerTimeoutArgs == {None, <<10000>>}
TriggerModeArgs == {"None", "clone"}
DurMsArgs == {None, <<3000>>}
SerialArgs == {None, <<"test-serial">>}
FilePathArgs == {"None", "file.pbtxt", "mock-invalid-file-path"}

\* config_name: choices=['lightweight', 'default', 'memory']
ConfigNames == {"lightweight", "default", "memory"}

\* --ui / --no-ui: None, or the flag given.
UiArgs == {None, <<TRUE>>, <<FALSE>>}

\* The smallest --between-dur-ms and --dur-ms accepted, in ms.
MIN_DURATION_MS == 3000

\* --between-dur-ms: None when not passed, or a value below, at or above the
\* minimum.
BetweenDurMsArgs ==
  {None, <<MIN_DURATION_MS - 1>>, <<MIN_DURATION_MS>>, <<5000>>}

\* os.path.isfile / os.path.exists on the host.
IsFile(path) == path = "file.pbtxt"

\* The options the trigger-less subcommands (config list, open, vm) do not
\* have are None in their namespace.
NoTriggerArgs ==
  [dur_ms |-> None, trigger_names |-> None,
   trigger_stop_delay_ms |-> None, trigger_timeout_ms |-> None,
   trigger_mode |-> "None"]

TriggerArgSets ==
  [dur_ms : DurMsArgs, trigger_names : TriggerNameArgs,
   trigger_stop_delay_ms : StopDelayArgs,
   trigger_timeout_ms : TriggerTimeoutArgs, trigger_mode : TriggerModeArgs]

MakeArgs(sub, csub, file, runs, profiler, serial, t) ==
  [subcommands |-> sub, config_subcommand |-> csub, config_name |-> "default",
   file_path |-> file, runs |-> runs, profiler |-> profiler, serial |-> serial,
   dur_ms |-> t.dur_ms, trigger_names |-> t.trigger_names,
   trigger_stop_delay_ms |-> t.trigger_stop_delay_ms,
   trigger_timeout_ms |-> t.trigger_timeout_ms,
   trigger_mode |-> t.trigger_mode,
   ui |-> None, between_dur_ms |-> None,
   defaulted |-> {}]

\* args = None
NoneArgs == MakeArgs("None", "None", "None", 0, "None", None, NoTriggerArgs)

\* What parser.parse_args() hands back, per subcommand (create_parser,
\* add_config_parser). argparse leaves runs and profiler out of the namespace
\* of config show and config pull: runs = 0 and profiler = "None" stand for
\* the attributes that are not there.
ParsedArgs ==
  {[MakeArgs("profiler", "None", "None", runs, prof, serial, t)
      EXCEPT !.ui = ui, !.between_dur_ms = between] :
     runs \in 0..MaxRunsArg, prof \in {"perfetto", "simpleperf"},
     serial \in SerialArgs, t \in TriggerArgSets, ui \in UiArgs,
     between \in BetweenDurMsArgs}
  \cup
  {MakeArgs("config", csub, "None", 1, "None", serial, NoTriggerArgs) :
     csub \in {"None", "list"}, serial \in SerialArgs}
  \cup
  {[MakeArgs("config", "show", "None", 0, "None", serial, t)
      EXCEPT !.config_name = name] :
     serial \in SerialArgs, t \in TriggerArgSets, name \in ConfigNames}
  \cup
  {[MakeArgs("config", "pull", file, 0, "None", serial, t)
      EXCEPT !.config_name = name] :
     file \in FilePathArgs, serial \in SerialArgs, t \in TriggerArgSets,
     name \in ConfigNames}
  \cup
  {MakeArgs(sub, "None", file, 1, "None", serial, NoTriggerArgs) :
     sub \in {"open", "vm"}, file \in FilePathArgs \ {"None"},
     serial \in SerialArgs}

\* The result of a verify function: (args, error), or an exception.
Verified(args) == [args |-> args, error |-> "None", raised |-> FALSE]
Refused(error) == [args |-> NoneArgs, error |-> error, raised |-> FALSE]

\* profiler.verify_trigger_args: the trigger options depend on
\* --trigger-names; with names, --dur-ms and several runs are refused, the
\* number of stop delays is 1 or the number of names, and the options not
\* given take their defaults (DEFAULT_TRIGGER_STOP_DELAY_MS,
\* DEFAULT_TRIGGER_DUR_MS, DEFAULT_TRIGGER_MODE): `defaulted` names the number
\* options that did.
VerifyTriggerArgsAllowsDurMs(args) ==
  IF args.trigger_names = None
    THEN IF args.trigger_timeout_ms # None
           THEN Refused("--trigger-timeout-ms cannot be set without --trigger-names.")
         ELSE Verified(args)
  ELSE IF args.profiler # "perfetto"
    THEN Refused("--trigger-names cannot be passed if --profiler is not set to perfetto.")
  ELSE Verified(args)

VerifyTriggerArgs(args) ==
  IF args.trigger_names = None
    THEN IF args.trigger_timeout_ms # None
           THEN Refused("--trigger-timeout-ms cannot be set without --trigger-names.")
         ELSE IF args.trigger_stop_delay_ms # None
           THEN Refused("--trigger-stop-delay-ms cannot be set without --trigger-names.")
         ELSE IF args.trigger_mode # "None"
           THEN Refused("--trigger-mode cannot be set without --trigger-names.")
         ELSE Verified(args)
  ELSE IF args.profiler # "perfetto"
    THEN Refused("--trigger-names cannot be passed if --profiler is not set to perfetto.")
  ELSE IF args.dur_ms # None
    THEN Refused("--dur-ms cannot be passed if a perfetto trigger is being set.")
  ELSE IF args.runs > 1
    THEN Refused("the number of runs cannot be more than 1 when including trigger configs.")
  ELSE IF /\ args.trigger_stop_delay_ms # None
          /\ Len(args.trigger_stop_delay_ms) # 1
          /\ Len(args.trigger_stop_delay_ms) # Len(args.trigger_names)
    THEN Refused("number of trigger names passed is not equal to number of stop-delay-ms values passed.")
  ELSE Verified(
    [args EXCEPT
       !.defaulted =
          {o \in {"trigger_stop_delay_ms"} : args.trigger_stop_delay_ms = None}
          \cup {o \in {"trigger_timeout_ms"} : args.trigger_timeout_ms = None}
          \cup {o \in {"trigger_mode"} : args.trigger_mode = "None"},
       !.trigger_mode = IF @ = "None" THEN "DEFAULT_TRIGGER_MODE" ELSE @])

\* The stop delay that applies to the i-th trigger name of verified
\* arguments: a single value goes to every name, several go one to one.
StopDelayFor(args, i) ==
  IF Len(args.trigger_stop_delay_ms) = 1
    THEN args.trigger_stop_delay_ms[1]
    ELSE args.trigger_stop_delay_ms[i]

\* profiler.verify_profiler_args: --runs is at least 1; --ui goes with one
\* run only; --between-dur-ms goes with several runs only and is at least
\* MIN_DURATION_MS; ui not given is True for one run and False for several;
\* then the trigger options.
VerifyProfilerArgsUiAnyRuns(args) ==
  IF args.runs < 1
    THEN Refused("--runs cannot be set to a value smaller than 1.")
  ELSE VerifyTriggerArgs(
         [args EXCEPT !.ui = IF @ = None THEN <<TRUE>> ELSE @])

VerifyProfilerArgsBetweenAnyRuns(args) ==
  IF args.runs < 1
    THEN Refused("--runs cannot be set to a value smaller than 1.")
  ELSE IF args.runs > 1 /\ args.ui = <<TRUE>>
    THEN Refused("--ui cannot be passed if --runs is set to a value greater than 1.")
  ELSE VerifyTriggerArgs(
         [args EXCEPT !.ui = IF @ = None THEN <<args.runs = 1>> ELSE @])

VerifyProfilerArgs(args) ==
  IF args.runs < 1
    THEN Refused("--runs cannot be set to a value smaller than 1.")
  ELSE IF args.runs > 1 /\ args.ui = <<TRUE>>
    THEN Refused("--ui cannot be passed if --runs is set to a value greater than 1.")
  ELSE IF args.between_dur_ms # None /\ args.runs = 1
    THEN Refused("--between-dur-ms cannot be passed if --runs is not a value greater than 1.")
  ELSE IF args.between_dur_ms # None /\ args.between_dur_ms[1] < MIN_DURATION_MS
    THEN Refused("--between-dur-ms cannot be set to a smaller value than 3000.")
  ELSE VerifyTriggerArgs(
         [args EXCEPT
            !.ui = IF @ = None THEN <<args.runs = 1>> ELSE @,
            !.defaulted = IF args.between_dur_ms = None
                            THEN {"between_dur_ms"} ELSE {}])

\* open.verify_open_args: the file to open exists.
VerifyOpenArgs(args) ==
  IF ~IsFile(args.file_path)
    THEN Refused("file_path is an invalid file path.")
    ELSE Verified(args)

\* "./" + args.config_name + ".pbtxt"
DefaultFilePath(config_name) ==
  CASE config_name = "default" -> "./default.pbtxt"
    [] config_name = "lightweight" -> "./lightweight.pbtxt"
    [] config_name = "memory" -> "./memory.pbtxt"

\* config.verify_config_args
VerifyConfigArgsNoFileCheck(args) ==
  IF args.config_subcommand = "None"
    THEN Refused("torq config cannot be called without a subcommand.")
  ELSE IF args.config_subcommand # "list"
    THEN VerifyTriggerArgs([args EXCEPT !.runs = 1, !.profiler = "perfetto"])
    ELSE Verified(args)

VerifyConfigArgsKeepsRuns(args) ==
  IF args.config_subcommand = "None"
    THEN Refused("torq config cannot be called without a subcommand.")
  ELSE IF /\ args.config_subcommand = "pull"
          /\ args.file_path # "None"
          /\ ~IsFile(args.file_path)
    THEN Refused("file_path is not a valid filepath.")
  ELSE LET filed ==
             IF args.config_subcommand = "pull" /\ args.file_path = "None"
               THEN [args EXCEPT !.file_path = DefaultFilePath(args.config_name)]
               ELSE args
       IN IF args.config_subcommand # "list"
            THEN VerifyTriggerArgs([filed EXCEPT !.profiler = "perfetto"])
            ELSE Verified(filed)

VerifyConfigArgs(args) ==
  IF args.config_subcommand = "None"
    THEN Refused("torq config cannot be called without a subcommand.")
  ELSE IF /\ args.config_subcommand = "pull"
          /\ args.file_path # "None"
          /\ ~IsFile(args.file_path)
    THEN Refused("file_path is not a valid filepath.")
  ELSE LET filed ==
             IF args.config_subcommand = "pull" /\ args.file_path = "None"
               THEN [args EXCEPT !.file_path = DefaultFilePath(args.config_name)]
               ELSE args
       IN IF args.config_subcommand # "list"
            THEN VerifyTriggerArgs(
                   [filed EXCEPT !.runs = 1, !.profiler = "perfetto"])
            ELSE Verified(filed)

\* torq.verify_args
VerifyArgs(args) ==
  CASE args.subcommands = "profiler" -> VerifyProfilerArgs(args)
    [] args.subcommands = "config" -> VerifyConfigArgs(args)
    [] args.subcommands = "open" -> VerifyOpenArgs(args)
    [] args.subcommands = "vm" -> Verified(args)
    [] OTHER -> [args |-> NoneArgs, error |-> "None", raised |-> TRUE]

\* config.create_config_command: type = "config " + args.config_subcommand,
\* a TypeError when there is no subcommand.
CreateConfigCommand(args) ==
  CASE args.config_subcommand = "list" -> "config list"
    [] args.config_subcommand = "show" -> "config show"
    [] args.config_subcommand = "pull" -> "config pull"
    [] OTHER -> "TypeError"

\* torq.get_command: the type of the command built, or the exception raised.
GetCommand(args) ==
  CASE args.subcommands = "profiler" -> "profiler"
    [] args.subcommands = "config" -> CreateConfigCommand(args)
    [] args.subcommands = "open" -> "open"
    [] args.subcommands = "vm" -> "vm"
    [] OTHER -> "ValueError"

\* What command.execute(device) does to the device and returns, per command.
\* config (config.execute_config_command): list touches no device; show and
\* pull check the connection and, when it is there, root the device and ask
\* its SDK version; the config builder may return an error.
ConfigExecuteOutcomes(command) ==
  IF command = "config list"
    THEN {[calls |-> <<>>, error |-> "None"]}
    ELSE {[calls |-> calls, error |-> e] :
            calls \in {<<"check_device_connection">>,
                       <<"check_device_connection", "root_device",
                         "get_android_sdk_version">>},
            e \in {"None", "config builder error"}}

\* profiler: the capture session; it ends at a connection or elevation
\* failure, or goes through capture and retrieval.
ProfilerExecuteOutcomes ==
  {[calls |-> <<"check_connection">>, error |-> "device error"],
   [calls |-> <<"check_connection", "elevate">>, error |-> "device error"],
   [calls |-> <<"check_connection", "elevate", "start_capture", "pull_file",
                "remove_remote_file">>, error |-> "None"]}

\* open and vm: out of the capture session.
OtherExecuteOutcomes ==
  {[calls |-> <<>>, error |-> e] : e \in {"None", "command error"}}

ExecuteOutcomes(command) ==
  IF command = "profiler" THEN ProfilerExecuteOutcomes
  ELSE IF command \in {"open", "vm"} THEN OtherExecuteOutcomes
  ELSE ConfigExecuteOutcomes(command)

RunIdle ==
  /\ r_pc = "idle"
  /\ r_parsed = NoneArgs
  /\ r_args = NoneArgs
  /\ r_error = "None"
  /\ r_command = "None"
  /\ r_device = <<>>
  /\ r_devcalls = <<>>
  /\ r_exec_error = "None"
  /\ r_printed = <<>>

\* run(): parser.parse_args() has handed back the arguments.
RunInit ==
  /\ r_pc = "verify"
  /\ r_parsed \in ParsedArgs
  /\ r_args = r_parsed
  /\ r_error = "None"
  /\ r_command = "None"
  /\ r_device = <<>>
  /\ r_devcalls = <<>>
  /\ r_exec_error = "None"
  /\ r_printed = <<>>

\* args, error = verify_args(args); if error is not None: ...
RunVerifyIgnoresError ==
  /\ r_pc = "verify"
  /\ LET res == VerifyArgs(r_args)
     IN /\ r_error' = res.error
        /\ r_pc' = "get_command"
        /\ UNCHANGED r_args
  /\ UNCHANGED <<r_parsed, r_command, r_device, r_devcalls, r_exec_error, r_printed>>
  /\ UNCHANGED NotRun

RunVerify ==
  /\ r_pc = "verify"
  /\ LET res == VerifyArgs(r_args)
     IN IF res.raised
          THEN /\ r_pc' = "raised"
               /\ UNCHANGED <<r_parsed, r_args, r_error>>
          ELSE /\ r_args' = res.args
               /\ r_error' = res.error
               /\ r_pc' = IF res.error # "None" THEN "print_error"
                                                ELSE "get_command"
  /\ UNCHANGED <<r_parsed, r_command, r_device, r_devcalls, r_exec_error, r_printed>>
  /\ UNCHANGED NotRun

\* print_error(error); return
RunPrintErrorNoReturn ==
  /\ r_pc = "print_error"
  /\ r_printed' = Append(r_printed, r_error)
  /\ r_pc' = "device"
  /\ UNCHANGED <<r_parsed, r_args, r_error, r_command, r_device, r_devcalls, r_exec_error>>
  /\ UNCHANGED NotRun

RunPrintError ==
  /\ r_pc = "print_error"
  /\ r_printed' = Append(r_printed, r_error)
  /\ r_pc' = "returned"
  /\ UNCHANGED <<r_parsed, r_args, r_error, r_command, r_device, r_devcalls, r_exec_error>>
  /\ UNCHANGED NotRun

\* command = get_command(args)
RunGetCommand ==
  /\ r_pc = "get_command"
  /\ IF GetCommand(r_args) \in {"TypeError", "ValueError"}
       THEN /\ r_pc' = "raised"
            /\ UNCHANGED r_command
       ELSE /\ r_command' = GetCommand(r_args)
            /\ r_pc' = "device"
  /\ UNCHANGED <<r_parsed, r_args, r_error, r_device, r_devcalls, r_exec_error, r_printed>>
  /\ UNCHANGED NotRun

\* serial = args.serial[0] if args.serial else None; device = AdbDevice(serial)
RunCreateDevice ==
  /\ r_pc = "device"
  /\ r_device' = Append(r_device,
                        IF r_args.serial # None
                          THEN r_args.serial[1] ELSE "None")
  /\ r_pc' = "execute"
  /\ UNCHANGED <<r_parsed, r_args, r_error, r_command, r_devcalls, r_exec_error, r_printed>>
  /\ UNCHANGED NotRun

\* error = command.execute(device); if error is not None: ...
RunExecute ==
  /\ r_pc = "execute"
  /\ \E out \in IF r_command = "None" THEN OtherExecuteOutcomes
                                      ELSE ExecuteOutcomes(r_command) :
       /\ r_devcalls' = r_devcalls \o out.calls
       /\ r_exec_error' = out.error
       /\ r_pc' = IF out.error # "None" THEN "print_exec_error" ELSE "returned"
  /\ UNCHANGED <<r_parsed, r_args, r_error, r_command, r_device, r_printed>>
  /\ UNCHANGED NotRun

\* print_error(error); return
RunPrintExecErrorRetries ==
  /\ r_pc = "print_exec_error"
  /\ r_printed' = Append(r_printed, r_exec_error)
  /\ r_pc' = "device"
  /\ UNCHANGED <<r_parsed, r_args, r_error, r_command, r_device, r_devcalls, r_exec_error>>
  /\ UNCHANGED NotRun

RunPrintExecError ==
  /\ r_pc = "print_exec_error"
  /\ r_printed' = Append(r_printed, r_exec_error)
  /\ r_pc' = "returned"
  /\ UNCHANGED <<r_parsed, r_args, r_error, r_command, r_device, r_devcalls, r_exec_error>>
  /\ UNCHANGED NotRun

RunNext ==
  \/ RunVerify
  \/ RunPrintError
  \/ RunGetCommand
  \/ RunCreateDevice
  \/ RunExecute
  \/ RunPrintExecError

(***************************************************************************)
(* The capture session: SessionOrchestrator, TriggerCoordinator and        *)
(* ArtifactPipeline. It runs command.runs iterations one after the other,  *)
(* each CONNECT, ELEVATE, CAPTURE, RETRIEVE, CONVERT (simpleperf), PRESENT  *)
(* (ui and one run), DONE, and sleeps between two iterations.              *)
(***************************************************************************)

\* Largest number of runs of a session.
MaxRuns == 3

TriggerModes == {"start", "clone", "stop"}

\* The validated Commands: a trigger only with perfetto and one run, the ui
\* only with one run.
Commands ==
  {c \in [profiler : {"perfetto", "simpleperf"}, runs : 1..MaxRuns,
          trigger : {"none"} \cup TriggerModes, ui : BOOLEAN,
          symbols : {<<"~", "symbols">>}] :
     /\ c.trigger # "none" => (c.profiler = "perfetto" /\ c.runs = 1)
     /\ c.ui => c.runs = 1}

NoCommand ==
  [profiler |-> "none", runs |-> 0, trigger |-> "none", ui |-> FALSE,
   symbols |-> <<>>]

\* One entry of the session's log.
LogEntry(ev, run, ok) == [ev |-> ev, run |-> run, ok |-> ok]

\* A RunResult.
RunResult(run, outcome, artifact, detail) ==
  [run |-> run, outcome |-> outcome, artifact |-> artifact, detail |-> detail]

SessionIdle ==
  /\ o_pc = "idle"
  /\ o_command = NoCommand
  /\ o_run = 0
  /\ o_outcome = "none"
  /\ o_artifact = "none"
  /\ o_results = <<>>
  /\ o_log = <<>>
  /\ o_summary = FALSE

\* The session is about to start its first iteration.
SessionInit ==
  /\ o_pc = "start"
  /\ o_command \in Commands
  /\ o_run = 1
  /\ o_outcome = "none"
  /\ o_artifact = "none"
  /\ o_results = <<>>
  /\ o_log = <<>>
  /\ o_summary = FALSE

\* The user interrupts: looked for before each iteration and before each
\* sleep; the program ends without a summary.
SessionCancel ==
  /\ o_pc \in {"start", "sleep"}
  /\ o_pc' = "cancelled"
  /\ UNCHANGED <<o_command, o_run, o_outcome, o_artifact, o_results, o_log,
                 o_summary>>
  /\ UNCHANGED <<NotSession, cvars>>

\* An iteration starts.
SessionStartRun ==
  /\ o_pc = "start"
  /\ o_pc' = "CONNECT"
  /\ o_outcome' = "success"
  /\ o_artifact' = "none"
  /\ UNCHANGED <<o_command, o_run, o_results, o_log, o_summary>>
  /\ UNCHANGED <<NotSession, cvars>>

\* A fatal device error: the run ends with a device-error RunResult and the
\* session goes to its summary.
DeviceFailure(phase) ==
  /\ o_log' = Append(o_log, LogEntry(phase, o_run, FALSE))
  /\ o_outcome' = "device-error"
  /\ o_results' =
       Append(o_results, RunResult(o_run, "device-error", "none", phase))
  /\ o_pc' = "summary"

\* A device failure that is taken for a failed run only.
SessionConnectNotFatal ==
  /\ o_pc = "CONNECT"
  /\ \E ok \in BOOLEAN :
       IF ok
         THEN /\ o_log' = Append(o_log, LogEntry("CONNECT", o_run, TRUE))
              /\ o_pc' = "ELEVATE"
              /\ UNCHANGED <<o_outcome, o_results>>
         ELSE /\ o_log' = Append(o_log, LogEntry("CONNECT", o_run, FALSE))
              /\ o_outcome' = "device-error"
              /\ o_pc' = "DONE"
              /\ UNCHANGED o_results
  /\ UNCHANGED <<o_command, o_run, o_artifact, o_summary>>
  /\ UNCHANGED <<NotSession, cvars>>

\* CONNECT: check_connection(), once.
SessionConnect ==
  /\ o_pc = "CONNECT"
  /\ \E ok \in BOOLEAN :
       IF ok
         THEN /\ o_log' = Append(o_log, LogEntry("CONNECT", o_run, TRUE))
              /\ o_pc' = "ELEVATE"
              /\ UNCHANGED <<o_outcome, o_results>>
         ELSE DeviceFailure("CONNECT")
  /\ UNCHANGED <<o_command, o_run, o_artifact, o_summary>>
  /\ UNCHANGED <<NotSession, cvars>>

\* ELEVATE: elevate().
SessionElevate ==
  /\ o_pc = "ELEVATE"
  /\ \E ok \in BOOLEAN :
       IF ok
         THEN /\ o_log' = Append(o_log, LogEntry("ELEVATE", o_run, TRUE))
              /\ o_pc' = "CAPTURE"
              /\ UNCHANGED <<o_outcome, o_results>>
         ELSE DeviceFailure("ELEVATE")
  /\ UNCHANGED <<o_command, o_run, o_artifact, o_summary>>
  /\ UNCHANGED <<NotSession, cvars>>

\* CAPTURE: with a trigger, wait_for_trigger: the trigger fires, or the
\* timeout elapses and the backend is stopped, with or without a partial
\* trace; without a trigger, a capture of the given duration. `produced`
\* says whether a trace file is there.
CaptureOutcomes(command) ==
  IF command.trigger = "none"
    THEN {[outcome |-> "success", produced |-> TRUE]}
    ELSE {[outcome |-> "success", produced |-> TRUE]}
         \cup {[outcome |-> "timed-out", produced |-> p] : p \in BOOLEAN}

\* A capture after which the next run starts, its trace not yet retrieved.
SessionCaptureStartsNextRun ==
  /\ o_pc = "CAPTURE"
  /\ \E c \in CaptureOutcomes(o_command) :
       /\ o_log' = Append(o_log, LogEntry("CAPTURE", o_run, c.produced))
       /\ o_outcome' = c.outcome
       /\ IF o_run < o_command.runs
            THEN o_pc' = "CONNECT" /\ o_run' = o_run + 1
            ELSE o_pc' = (IF c.produced THEN "RETRIEVE" ELSE "DONE")
                 /\ UNCHANGED o_run
  /\ UNCHANGED <<o_command, o_artifact, o_results, o_summary>>
  /\ UNCHANGED <<NotSession, cvars>>

\* A timed-out trigger wait that ends the run without retrieval.
SessionCaptureDropsTimedOut ==
  /\ o_pc = "CAPTURE"
  /\ \E c \in CaptureOutcomes(o_command) :
       /\ o_log' = Append(o_log, LogEntry("CAPTURE", o_run, c.produced))
       /\ o_outcome' = c.outcome
       /\ o_pc' = IF c.outcome = "success" THEN "RETRIEVE" ELSE "DONE"
  /\ UNCHANGED <<o_command, o_run, o_artifact, o_results, o_summary>>
  /\ UNCHANGED <<NotSession, cvars>>

SessionCapture ==
  /\ o_pc = "CAPTURE"
  /\ \E c \in CaptureOutcomes(o_command) :
       /\ o_log' = Append(o_log, LogEntry("CAPTURE", o_run, c.produced))
       /\ o_outcome' = c.outcome
       /\ o_pc' = IF c.produced THEN "RETRIEVE" ELSE "DONE"
  /\ UNCHANGED <<o_command, o_run, o_artifact, o_results, o_summary>>
  /\ UNCHANGED <<NotSession, cvars>>

\* The phase after RETRIEVE and after CONVERT: PRESENT when the ui flag is
\* set and one run is configured.
PresentOrDone(command) ==
  IF command.ui /\ command.runs = 1 THEN "PRESENT" ELSE "DONE"

\* RETRIEVE: pull the trace file and remove the remote copy.
SessionRetrieve ==
  /\ o_pc = "RETRIEVE"
  /\ o_log' = Append(o_log, LogEntry("RETRIEVE", o_run, TRUE))
  /\ o_artifact' = "trace"
  /\ o_pc' = IF o_command.profiler = "simpleperf"
               THEN "CONVERT" ELSE PresentOrDone(o_command)
  /\ UNCHANGED <<o_command, o_run, o_outcome, o_results, o_summary>>
  /\ UNCHANGED <<NotSession, cvars>>

\* CONVERT: call convert_simpleperf_to_gecko on the retrieved trace.
SessionConvert ==
  /\ o_pc = "CONVERT"
  /\ o_log' = Append(o_log, LogEntry("CONVERT", o_run, TRUE))
  /\ o_pc' = "CONVERTING"
  /\ c_pc' = "stage1"
  /\ \E sp \in ScriptsPaths :
       c_args' = [scripts_path |-> sp, raw |-> RawTraceFile,
                  gecko |-> GeckoTraceFile, symbols |-> o_command.symbols]
  /\ c_file' = FALSE
  /\ c_calls' = <<>>
  /\ c_error' = "none"
  /\ UNCHANGED <<o_command, o_run, o_outcome, o_artifact, o_results, o_summary>>
  /\ UNCHANGED NotSession

\* convert_simpleperf_to_gecko is over: it returned, or it raised, and its
\* exception is a raw fault that nothing catches at the run boundary.
SessionConverted ==
  /\ o_pc = "CONVERTING"
  /\ c_pc \in {"returned", "raised"}
  /\ IF c_pc = "returned"
       THEN /\ o_pc' = PresentOrDone(o_command)
            /\ o_artifact' = "gecko"
            /\ UNCHANGED o_outcome
       ELSE /\ o_pc' = "crashed"
            /\ o_outcome' = "conversion-error"
            /\ UNCHANGED o_artifact
  /\ UNCHANGED <<o_command, o_run, o_results, o_log, o_summary>>
  /\ UNCHANGED <<NotSession, cvars>>

\* PRESENT: open the viewer on the artifact.
SessionPresent ==
  /\ o_pc = "PRESENT"
  /\ o_log' = Append(o_log, LogEntry("PRESENT", o_run, TRUE))
  /\ o_pc' = "DONE"
  /\ UNCHANGED <<o_command, o_run, o_outcome, o_artifact, o_results, o_summary>>
  /\ UNCHANGED <<NotSession, cvars>>

\* A run that ends the session although more runs are configured.
SessionDoneStopsAfterFailure ==
  /\ o_pc = "DONE"
  /\ o_log' = Append(o_log, LogEntry("DONE", o_run, TRUE))
  /\ o_results' = Append(o_results, RunResult(o_run, o_outcome, o_artifact, "none"))
  /\ o_pc' = IF o_run < o_command.runs /\ o_outcome = "success"
               THEN "sleep" ELSE "summary"
  /\ UNCHANGED <<o_command, o_run, o_outcome, o_artifact, o_summary>>
  /\ UNCHANGED <<NotSession, cvars>>

\* DONE: the run's RunResult is made; a sleep follows unless it was the last
\* run.
SessionDone ==
  /\ o_pc = "DONE"
  /\ o_log' = Append(o_log, LogEntry("DONE", o_run, TRUE))
  /\ o_results' = Append(o_results, RunResult(o_run, o_outcome, o_artifact, "none"))
  /\ o_pc' = IF o_run < o_command.runs THEN "sleep" ELSE "summary"
  /\ UNCHANGED <<o_command, o_run, o_outcome, o_artifact, o_summary>>
  /\ UNCHANGED <<NotSession, cvars>>

\* A sleep that is also taken after the last run.
SessionSleepAlways ==
  /\ o_pc \in {"sleep", "summary"}
  /\ ~o_summary
  /\ o_log' = Append(o_log, LogEntry("sleep", o_run, TRUE))
  /\ IF o_pc = "sleep"
       THEN o_run' = o_run + 1 /\ o_pc' = "start" /\ UNCHANGED o_summary
       ELSE o_summary' = TRUE /\ o_pc' = "end" /\ UNCHANGED o_run
  /\ UNCHANGED <<o_command, o_outcome, o_artifact, o_results>>
  /\ UNCHANGED <<NotSession, cvars>>

\* The sleep of between_dur_ms between two runs.
SessionSleep ==
  /\ o_pc = "sleep"
  /\ o_log' = Append(o_log, LogEntry("sleep", o_run, TRUE))
  /\ o_run' = o_run + 1
  /\ o_pc' = "start"
  /\ UNCHANGED <<o_command, o_outcome, o_artifact, o_results, o_summary>>
  /\ UNCHANGED <<NotSession, cvars>>

\* The session summary is reported: after the batch, or after the fatal
\* device error.
SessionSummary ==
  /\ o_pc = "summary"
  /\ o_summary' = TRUE
  /\ o_pc' = "end"
  /\ UNCHANGED <<o_command, o_run, o_outcome, o_artifact, o_results, o_log>>
  /\ UNCHANGED <<NotSession, cvars>>

SessionNext ==
  \/ SessionCancel
  \/ SessionStartRun
  \/ SessionConnect
  \/ SessionElevate
  \/ SessionCapture
  \/ SessionRetrieve
  \/ SessionConvert
  \/ ConvertStage1
  \/ ConvertStage2
  \/ ConvertCheck
  \/ SessionConverted
  \/ SessionPresent
  \/ SessionDone
  \/ SessionSleep
  \/ SessionSummary

(***************************************************************************)
(* One capture: TriggerCoordinator.wait_for_trigger, or the plain capture  *)
(* of a given duration, and ArtifactPipeline.retrieve. The backend is      *)
(* armed at time 0. In the modes start and stop the first firing observed  *)
(* wins and the backend is stopped once its stop delay is over; in the     *)
(* mode clone a firing makes a snapshot once its stop delay is over and    *)
(* the capture keeps running, until the timeout; without a firing the      *)
(* timeout forces a stop.                                                  *)
(***************************************************************************)

\* Largest trigger timeout and largest capture duration, in ticks.
MaxTriggerTimeout == 3
\* Largest stop delay, in ticks.
MaxDelayTicks == 2

\* The clock stops here: no stop is due later.
MaxTicks == MaxTriggerTimeout + MaxDelayTicks

\* The stop delays given: one value for every name, or one value per name.
DelayLists(n) ==
  UNION {[1..k -> 0..MaxDelayTicks] : k \in {1, n}}

\* A TriggerSpec, and the plain capture of `timeout` ticks (mode "none").
CaptureSpecs ==
  {[mode |-> mode, names |-> SubSeq(TriggerNamePool, 1, n),
    trigger_stop_delay_ms |-> d, timeout |-> timeout] :
     mode \in TriggerModes, n \in 1..MaxTriggerNames,
     d \in UNION {DelayLists(m) : m \in 1..MaxTriggerNames},
     timeout \in 1..MaxTriggerTimeout}
  \cup
  {[mode |-> "none", names |-> <<>>, trigger_stop_delay_ms |-> <<>>,
    timeout |-> timeout] : timeout \in 1..MaxTriggerTimeout}

\* The specs that went through validation: as many delays as names, or one.
ValidCaptureSpecs ==
  {sp \in CaptureSpecs :
     Len(sp.trigger_stop_delay_ms) \in {Len(sp.names), 1}
     \/ sp.mode = "none"}

NoCapture ==
  [mode |-> "none", names |-> <<>>, trigger_stop_delay_ms |-> <<>>,
   timeout |-> 0]

\* The name of a trace file: <base>, or <base>.<N> for the N-th clone
\* snapshot.
TraceFile(mode, n) ==
  [base |-> "PERFETTO_TRACE_FILE",
   suffix |-> IF mode = "clone" THEN <<n>> ELSE None]

TriggerIdle ==
  /\ t_pc = "idle"
  /\ t_spec = NoCapture
  /\ t_now = 0
  /\ t_fired = <<>>
  /\ t_due = None
  /\ t_stops = <<>>
  /\ t_suffix = 0
  /\ t_files = <<>>
  /\ t_pulled = <<>>
  /\ t_outcome = "none"

\* The backend is armed.
TriggerInit ==
  /\ t_pc = "waiting"
  /\ t_spec \in ValidCaptureSpecs
  /\ t_now = 0
  /\ t_fired = <<>>
  /\ t_due = None
  /\ t_stops = <<>>
  /\ t_suffix = 0
  /\ t_files = <<>>
  /\ t_pulled = <<>>
  /\ t_outcome = "none"

\* Time goes by, up to the next thing due: the timeout, or the end of the
\* stop delay.
TriggerTick ==
  /\ t_pc \in {"waiting", "delaying"}
  /\ t_now < MaxTicks
  /\ t_pc = "waiting" => t_now < t_spec.timeout
  /\ t_pc = "delaying" => t_now < t_due[1]
  /\ t_now' = t_now + 1
  /\ UNCHANGED <<t_pc, t_spec, t_fired, t_due, t_stops, t_suffix, t_files,
                 t_pulled, t_outcome>>
  /\ UNCHANGED NotTrigger

\* A configured trigger fires before the timeout: the first one observed in
\* a tick wins, the others of that tick are ignored, and the capture goes on
\* for its stop delay.
TriggerFire ==
  /\ t_pc = "waiting"
  /\ t_spec.mode # "none"
  /\ t_now < t_spec.timeout
  /\ \A k \in DOMAIN t_fired : t_fired[k].at # t_now
  /\ \E i \in 1..Len(t_spec.names) :
       /\ t_fired' = Append(t_fired, [name |-> i, at |-> t_now])
       /\ t_due' = <<t_now + StopDelayFor(t_spec, i)>>
  /\ t_pc' = "delaying"
  /\ UNCHANGED <<t_spec, t_now, t_stops, t_suffix, t_files, t_pulled,
                 t_outcome>>
  /\ UNCHANGED NotTrigger

\* A stop that does not wait for the stop delay.
TriggerStopAtFiring ==
  /\ t_pc = "delaying"
  /\ t_spec.mode \in {"start", "stop"}
  /\ t_stops' = Append(t_stops, [kind |-> "stop", at |-> t_now])
  /\ t_files' = Append(t_files, TraceFile(t_spec.mode, t_suffix))
  /\ t_outcome' = "success"
  /\ t_pc' = "stopped"
  /\ UNCHANGED <<t_spec, t_now, t_fired, t_due, t_suffix, t_pulled>>
  /\ UNCHANGED NotTrigger

\* start and stop: the stop delay of the firing is over, the backend is
\* stopped.
TriggerStop ==
  /\ t_pc = "delaying"
  /\ t_spec.mode \in {"start", "stop"}
  /\ t_now = t_due[1]
  /\ t_stops' = Append(t_stops, [kind |-> "stop", at |-> t_now])
  /\ t_files' = Append(t_files, TraceFile(t_spec.mode, t_suffix))
  /\ t_outcome' = "success"
  /\ t_pc' = "stopped"
  /\ UNCHANGED <<t_spec, t_now, t_fired, t_due, t_suffix, t_pulled>>
  /\ UNCHANGED NotTrigger

\* A snapshot that does not move the suffix counter.
TriggerSnapshotReusesSuffix ==
  /\ t_pc = "delaying"
  /\ t_spec.mode = "clone"
  /\ t_now = t_due[1]
  /\ t_stops' = Append(t_stops, [kind |-> "snapshot", at |-> t_now])
  /\ t_files' = Append(t_files, TraceFile(t_spec.mode, t_suffix))
  /\ t_due' = None
  /\ t_pc' = "waiting"
  /\ UNCHANGED <<t_spec, t_now, t_fired, t_suffix, t_pulled, t_outcome>>
  /\ UNCHANGED NotTrigger

\* clone: the stop delay of the firing is over, a snapshot is written under
\* the next suffix and the capture keeps running.
TriggerSnapshot ==
  /\ t_pc = "delaying"
  /\ t_spec.mode = "clone"
  /\ t_now = t_due[1]
  /\ t_stops' = Append(t_stops, [kind |-> "snapshot", at |-> t_now])
  /\ t_files' = Append(t_files, TraceFile(t_spec.mode, t_suffix))
  /\ t_suffix' = t_suffix + 1
  /\ t_due' = None
  /\ t_pc' = "waiting"
  /\ UNCHANGED <<t_spec, t_now, t_fired, t_pulled, t_outcome>>
  /\ UNCHANGED NotTrigger

\* The timeout is over: the backend is stopped by force. The run timed out
\* when no trigger fired; in the modes start and stop a partial trace may be
\* there.
TriggerTimeout ==
  /\ t_pc = "waiting"
  /\ t_spec.mode # "none"
  /\ t_now >= t_spec.timeout
  /\ t_stops' = Append(t_stops, [kind |-> "forced", at |-> t_now])
  /\ t_outcome' = IF t_fired = <<>> THEN "timed-out" ELSE "success"
  /\ \E partial \in BOOLEAN :
       t_files' = IF partial /\ t_spec.mode # "clone"
                    THEN Append(t_files, TraceFile(t_spec.mode, t_suffix))
                    ELSE t_files
  /\ t_pc' = "stopped"
  /\ UNCHANGED <<t_spec, t_now, t_fired, t_due, t_suffix, t_pulled>>
  /\ UNCHANGED NotTrigger

\* Without a trigger: the capture ends when its duration is over.
CaptureDurationStop ==
  /\ t_pc = "waiting"
  /\ t_spec.mode = "none"
  /\ t_now = t_spec.timeout
  /\ t_stops' = Append(t_stops, [kind |-> "stop", at |-> t_now])
  /\ t_files' = Append(t_files, TraceFile(t_spec.mode, t_suffix))
  /\ t_outcome' = "success"
  /\ t_pc' = "stopped"
  /\ UNCHANGED <<t_spec, t_now, t_fired, t_due, t_suffix, t_pulled>>
  /\ UNCHANGED NotTrigger

\* retrieve: the next trace file is pulled to the host and its remote copy
\* removed.
TriggerRetrieve ==
  /\ t_pc = "stopped"
  /\ Len(t_pulled) < Len(t_files)
  /\ t_pulled' = Append(t_pulled, t_files[Len(t_pulled) + 1])
  /\ t_pc' = IF Len(t_pulled) + 1 = Len(t_files) THEN "retrieved" ELSE "stopped"
  /\ UNCHANGED <<t_spec, t_now, t_fired, t_due, t_stops, t_suffix, t_files,
                 t_outcome>>
  /\ UNCHANGED NotTrigger

TriggerNext ==
  \/ TriggerTick
  \/ TriggerFire
  \/ TriggerStop
  \/ TriggerSnapshot
  \/ TriggerTimeout
  \/ CaptureDurationStop
  \/ TriggerRetrieve

(***************************************************************************)
(* config.execute_config_command, called several times in one process:     *)
(* PREDEFINED_PERFETTO_CONFIGS is a dict of the module, `config list`      *)
(* prints its keys, `config show` and `config pull` look one key up.       *)
(***************************************************************************)

\* Most config commands executed in one process.
MaxCommands == 3

\* list(PREDEFINED_PERFETTO_CONFIGS.keys()) when the module is loaded.
PredefinedConfigNames == <<"default", "lightweight", "memory">>

\* config.strip().split("\n")[2:-2] of the config built for a name: its body.
ConfigBody(name) ==
  CASE name = "default" -> <<"default: body">>
    [] name = "lightweight" -> <<"lightweight: body">>
    [] name = "memory" -> <<"memory: body">>

\* One executed command: its type, the config name, what it printed and the
\* error it returned.
Executed(type, name, printed, error) ==
  [type |-> type, name |-> name, printed |-> printed, error |-> error]

\* base.ANDROID_SDK_VERSION_T, and what device.get_android_sdk_version() may
\* hand back.
ANDROID_SDK_VERSION_T == "ANDROID_SDK_VERSION_T"
DeviceSdkVersions == {ANDROID_SDK_VERSION_T, "ANDROID_SDK_VERSION_S"}

\* What device.check_device_connection() may hand back.
ConnectionErrors == {"None", "device connection error"}

\* The file_path of a verified `config pull` of a config name: the default
\* path or the existing file given.
PullFilePaths(name) == {DefaultFilePath(name), "file.pbtxt"}

\* The device calls of execute_show_or_pull_command, in order.
DeviceCallsAlwaysRoot(connection) ==
  <<"check_device_connection", "root_device", "get_android_sdk_version">>

DeviceCalls(connection) ==
  IF connection = "None"
    THEN <<"check_device_connection", "root_device", "get_android_sdk_version">>
    ELSE <<"check_device_connection">>

\* The android_sdk_version the config builder is called with.
SdkVersionGiven(connection, device_sdk) ==
  IF connection = "None" THEN device_sdk ELSE ANDROID_SDK_VERSION_T

\* What execute_show_or_pull_command prints and the file it has
\* run_subprocess write, once the builder has handed back (config, error).
ShowOrPullEffectsBeforeError(type, name, file_path, builder_error) ==
  IF type = "config pull"
    THEN [printed |-> <<>>, written |-> file_path]
    ELSE [printed |-> ConfigBody(name), written |-> "None"]

ShowOrPullEffects(type, name, file_path, builder_error) ==
  IF builder_error # "None"
    THEN [printed |-> <<>>, written |-> "None"]
  ELSE IF type = "config pull"
    THEN [printed |-> <<>>, written |-> file_path]
    ELSE [printed |-> ConfigBody(name), written |-> "None"]

\* No command was executed yet.
NoLast ==
  [type |-> "None", connection |-> "None", calls |-> <<>>, sdk |-> "None",
   printed |-> <<>>, written |-> "None", error |-> "None"]

CatalogIdle ==
  /\ k_pc = "idle"
  /\ k_configs = PredefinedConfigNames
  /\ k_log = <<>>
  /\ k_last = NoLast

CatalogInit ==
  /\ k_pc = "ready"
  /\ k_configs = PredefinedConfigNames
  /\ k_log = <<>>
  /\ k_last = NoLast

\* case "config list": print("\n".join(list(PREDEFINED_PERFETTO_CONFIGS.keys())))
CatalogList ==
  /\ k_pc = "ready"
  /\ Len(k_log) < MaxCommands
  /\ k_log' = Append(k_log, Executed("config list", "None", k_configs, "None"))
  /\ k_last' = [NoLast EXCEPT !.type = "config list", !.printed = k_configs]
  /\ UNCHANGED <<k_pc, k_configs>>
  /\ UNCHANGED NotCatalog

\* A look-up that moves the key looked up to the end of the dict.
CatalogShowOrPullReorders ==
  /\ k_pc = "ready"
  /\ Len(k_log) < MaxCommands
  /\ \E type \in {"config show", "config pull"},
        i \in DOMAIN k_configs :
       /\ k_log' = Append(k_log, Executed(type, k_configs[i],
                                          ConfigBody(k_configs[i]), "None"))
       /\ k_configs' = [j \in DOMAIN k_configs |->
                          IF j < i THEN k_configs[j]
                          ELSE IF j < Len(k_configs) THEN k_configs[j + 1]
                          ELSE k_configs[i]]
  /\ UNCHANGED <<k_pc, k_last>>
  /\ UNCHANGED NotCatalog

\* case "config show" | "config pull": execute_show_or_pull_command. The
\* device is asked for its connection (and rooted and asked for its SDK
\* version when connected), the builder of the config name is looked up and
\* called with the SDK version, its error is returned; pull writes the config
\* with run_subprocess, show prints its body.
CatalogShowOrPull ==
  /\ k_pc = "ready"
  /\ Len(k_log) < MaxCommands
  /\ \E type \in {"config show", "config pull"},
        i \in DOMAIN k_configs,
        connection \in ConnectionErrors,
        device_sdk \in DeviceSdkVersions,
        builder_error \in {"None", "config builder error"},
        returncode \in {EX_SUCCESS, EX_FAILURE} :
       \E file_path \in IF type = "config pull" THEN PullFilePaths(k_configs[i])
                                                 ELSE {"None"} :
         LET name == k_configs[i]
             effects == ShowOrPullEffects(type, name, file_path, builder_error)
             raised ==
               /\ effects.written # "None"
               /\ RunSubprocess(returncode, {}, FALSE).raised
         IN /\ k_last' = [type |-> type, connection |-> connection,
                          calls |-> DeviceCalls(connection),
                          sdk |-> SdkVersionGiven(connection, device_sdk),
                          printed |-> effects.printed,
                          written |-> effects.written,
                          error |-> IF raised THEN "CalledProcessError"
                                              ELSE builder_error]
            /\ IF raised
                 THEN /\ k_pc' = "CalledProcessError"
                      /\ UNCHANGED k_log
                 ELSE /\ k_log' = Append(k_log, Executed(type, name,
                                                         effects.printed,
                                                         builder_error))
                      /\ UNCHANGED k_pc
  /\ UNCHANGED k_configs
  /\ UNCHANGED NotCatalog

\* case _: raise ValueError("Invalid config subcommand was used.")
CatalogInvalid ==
  /\ k_pc = "ready"
  /\ Len(k_log) < MaxCommands
  /\ k_pc' = "ValueError"
  /\ k_last' = [NoLast EXCEPT !.type = "invalid", !.error = "ValueError"]
  /\ UNCHANGED <<k_configs, k_log>>
  /\ UNCHANGED NotCatalog

CatalogNext ==
  \/ CatalogList
  \/ CatalogShowOrPull
  \/ CatalogInvalid

(***************************************************************************)
(* utils.set_default_subparser: sys.argv is scanned from index 1; the      *)
(* global options and their arguments lead, the default subcommand goes    *)
(* right after them unless a subcommand is there. Indexes are those of     *)
(* Python, from 0.                                                         *)
(***************************************************************************)

\* Most arguments after the program name.
MaxArgs == 3
\* Most calls after the first one.
MaxCalls == 2

\* What an argument of the command line may be.
ArgTokens == {"--serial", "--help", "-h", "0.0.0.0", "-d", "profiler", "config"}

\* sys.argv: the program name and the arguments.
Argvs ==
  UNION {{<<"torq">> \o a : a \in [1..n -> ArgTokens]} : n \in 0..MaxArgs}

\* global_opts: the option strings of the parser's own actions with their
\* nargs: -h and --help (0), --serial (1).
GlobalOpts == {"-h", "--help", "--serial"}
HelpOpts == {"-h", "--help"}
GlobalOptNargs(opt) == IF opt = "--serial" THEN 1 ELSE 0

\* action._name_parser_map.keys(): the subcommands of the parser.
SubparserNames == {"profiler", "config", "open", "vm"}

\* The name given to set_default_subparser by create_parser.
DefaultSubparser == "profiler"

\* sys.argv[idx]
ArgAt(argv, idx) == argv[idx + 1]

\* sys.argv.insert(idx, name): an index past the end appends.
InsertAt(argv, idx, name) ==
  LET at == IF idx > Len(argv) THEN Len(argv) ELSE idx
  IN SubSeq(argv, 1, at) \o <<name>> \o SubSeq(argv, at + 1, Len(argv))

GlobalOptionError(arg) ==
  IF arg = "--serial"
    THEN "Global options like --serial must come before subcommand arguments."
    ELSE "Global options like -h must come before subcommand arguments."

SubparserIdle ==
  /\ p_pc = "idle"
  /\ p_orig = <<>>
  /\ p_argv = <<>>
  /\ p_idx = 0
  /\ p_insertion_idx = 0
  /\ p_found = FALSE
  /\ p_error = "None"
  /\ p_calls = 0

\* subparser_found = False; insertion_idx = 1;
\* is_non_global_option_found = False; idx = 1
SubparserInit ==
  /\ p_pc = "scan"
  /\ p_orig \in Argvs
  /\ p_argv = p_orig
  /\ p_idx = 1
  /\ p_insertion_idx = 1
  /\ p_found = FALSE
  /\ p_error = "None"
  /\ p_calls = 0

\* A scan that refuses -h and --help after a non-global argument as well.
SubparserScanRefusesHelp ==
  /\ p_pc = "scan"
  /\ IF p_idx >= Len(p_argv)
       THEN /\ p_pc' = "lookup"
            /\ UNCHANGED <<p_idx, p_insertion_idx, p_found, p_error>>
       ELSE LET arg == ArgAt(p_argv, p_idx)
            IN IF arg \in GlobalOpts
                 THEN IF p_found
                        THEN /\ p_error' = GlobalOptionError(arg)
                             /\ p_pc' = "returned"
                             /\ UNCHANGED <<p_idx, p_insertion_idx, p_found>>
                        ELSE /\ p_insertion_idx' = p_idx + GlobalOptNargs(arg) + 1
                             /\ p_idx' = p_idx + GlobalOptNargs(arg) + 1
                             /\ UNCHANGED <<p_pc, p_found, p_error>>
                 ELSE /\ p_found' = TRUE
                      /\ p_idx' = p_idx + 1
                      /\ UNCHANGED <<p_pc, p_insertion_idx, p_error>>
  /\ UNCHANGED <<p_orig, p_argv, p_calls>>
  /\ UNCHANGED NotSubparser

\* One turn of `while idx < len(sys.argv)`.
SubparserScan ==
  /\ p_pc = "scan"
  /\ IF p_idx >= Len(p_argv)
       THEN /\ p_pc' = "lookup"
            /\ UNCHANGED <<p_idx, p_insertion_idx, p_found, p_error>>
       ELSE LET arg == ArgAt(p_argv, p_idx)
            IN IF arg \in GlobalOpts
                 THEN IF p_found
                        THEN IF arg \in HelpOpts
                               THEN /\ p_idx' = p_idx + GlobalOptNargs(arg) + 1
                                    /\ UNCHANGED <<p_pc, p_insertion_idx,
                                                   p_found, p_error>>
                               ELSE /\ p_error' = GlobalOptionError(arg)
                                    /\ p_pc' = "returned"
                                    /\ UNCHANGED <<p_idx, p_insertion_idx,
                                                   p_found>>
                        ELSE /\ p_insertion_idx' = p_idx + GlobalOptNargs(arg) + 1
                             /\ p_idx' = p_idx + GlobalOptNargs(arg) + 1
                             /\ UNCHANGED <<p_pc, p_found, p_error>>
                 ELSE /\ p_found' = TRUE
                      /\ p_idx' = p_idx + 1
                      /\ UNCHANGED <<p_pc, p_insertion_idx, p_error>>
  /\ UNCHANGED <<p_orig, p_argv, p_calls>>
  /\ UNCHANGED NotSubparser

\* A look-up that puts the default subcommand first.
SubparserLookupInsertsFirst ==
  /\ p_pc = "lookup"
  /\ IF /\ p_insertion_idx < Len(p_argv)
        /\ ArgAt(p_argv, p_insertion_idx) \in SubparserNames
       THEN UNCHANGED p_argv
       ELSE p_argv' = InsertAt(p_argv, 1, DefaultSubparser)
  /\ p_pc' = "returned"
  /\ UNCHANGED <<p_orig, p_idx, p_insertion_idx, p_found, p_error, p_calls>>
  /\ UNCHANGED NotSubparser

\* A look-up that never finds the subcommand.
SubparserLookupAlwaysInserts ==
  /\ p_pc = "lookup"
  /\ p_argv' = InsertAt(p_argv, p_insertion_idx, DefaultSubparser)
  /\ p_pc' = "returned"
  /\ UNCHANGED <<p_orig, p_idx, p_insertion_idx, p_found, p_error, p_calls>>
  /\ UNCHANGED NotSubparser

\* After the scan: a subcommand at insertion_idx is found, or the default
\* one is inserted there; return None.
SubparserLookup ==
  /\ p_pc = "lookup"
  /\ IF /\ p_insertion_idx < Len(p_argv)
        /\ ArgAt(p_argv, p_insertion_idx) \in SubparserNames
       THEN UNCHANGED p_argv
       ELSE p_argv' = InsertAt(p_argv, p_insertion_idx, DefaultSubparser)
  /\ p_pc' = "returned"
  /\ UNCHANGED <<p_orig, p_idx, p_insertion_idx, p_found, p_error, p_calls>>
  /\ UNCHANGED NotSubparser

\* create_parser is called again in the process: set_default_subparser
\* starts over on the sys.argv the call before left, which returned None.
SubparserAgain ==
  /\ p_pc = "returned"
  /\ p_error = "None"
  /\ p_calls < MaxCalls
  /\ p_calls' = p_calls + 1
  /\ p_orig' = p_argv
  /\ p_pc' = "scan"
  /\ p_idx' = 1
  /\ p_insertion_idx' = 1
  /\ p_found' = FALSE
  /\ UNCHANGED <<p_argv, p_error>>
  /\ UNCHANGED NotSubparser

SubparserNext ==
  \/ SubparserScan
  \/ SubparserLookup
  \/ SubparserAgain

(***************************************************************************)
(* Specifications                                                          *)
(***************************************************************************)

InitWait ==
  /\ WaitInit
  /\ SignalIdle
  /\ ConvertIdle
  /\ RunIdle
  /\ SessionIdle
  /\ TriggerIdle
  /\ CatalogIdle
  /\ SubparserIdle
  /\ SubprocessIdle

SpecWait == InitWait /\ [][WaitNext]_vars

InitSignal ==
  /\ SignalInit
  /\ WaitIdle
  /\ ConvertIdle
  /\ RunIdle
  /\ SessionIdle
  /\ TriggerIdle
  /\ CatalogIdle
  /\ SubparserIdle
  /\ SubprocessIdle

SpecSignal == InitSignal /\ [][SignalNext]_vars

InitConvert ==
  /\ ConvertInit
  /\ WaitIdle
  /\ SignalIdle
  /\ RunIdle
  /\ SessionIdle
  /\ TriggerIdle
  /\ CatalogIdle
  /\ SubparserIdle
  /\ SubprocessIdle

SpecConvert == InitConvert /\ [][ConvertNext]_vars

InitRun ==
  /\ RunInit
  /\ WaitIdle
  /\ SignalIdle
  /\ ConvertIdle
  /\ SessionIdle
  /\ TriggerIdle
  /\ CatalogIdle
  /\ SubparserIdle
  /\ SubprocessIdle

SpecRun == InitRun /\ [][RunNext]_vars

InitSession ==
  /\ SessionInit
  /\ WaitIdle
  /\ SignalIdle
  /\ ConvertIdle
  /\ RunIdle
  /\ TriggerIdle
  /\ CatalogIdle
  /\ SubparserIdle
  /\ SubprocessIdle

SpecSession == InitSession /\ [][SessionNext]_vars

InitTrigger ==
  /\ TriggerInit
  /\ WaitIdle
  /\ SignalIdle
  /\ ConvertIdle
  /\ RunIdle
  /\ SessionIdle
  /\ CatalogIdle
  /\ SubparserIdle
  /\ SubprocessIdle

SpecTrigger == InitTrigger /\ [][TriggerNext]_vars

InitCatalog ==
  /\ CatalogInit
  /\ WaitIdle
  /\ SignalIdle
  /\ ConvertIdle
  /\ RunIdle
  /\ SessionIdle
  /\ TriggerIdle
  /\ SubparserIdle
  /\ SubprocessIdle

SpecCatalog == InitCatalog /\ [][CatalogNext]_vars

InitSubparser ==
  /\ SubparserInit
  /\ WaitIdle
  /\ SignalIdle
  /\ ConvertIdle
  /\ RunIdle
  /\ SessionIdle
  /\ TriggerIdle
  /\ CatalogIdle
  /\ SubprocessIdle

SpecSubparser == InitSubparser /\ [][SubparserNext]_vars

InitSubprocess ==
  /\ SubprocessInit
  /\ WaitIdle
  /\ SignalIdle
  /\ ConvertIdle
  /\ RunIdle
  /\ SessionIdle
  /\ TriggerIdle
  /\ CatalogIdle
  /\ SubparserIdle

SpecSubprocess == InitSubprocess /\ [][SubprocessNext]_vars

\* ---- properties of wait_for_output ----

\* The i-th line read holds the pattern.
LineMatches(i) ==
  /\ Decodable(w_lines[i].line)
  /\ Contains(w_pattern, Decode(w_lines[i].line))

\* The i-th line was handed back before the budget had elapsed.
SeenInBudget(i) == WithinBudget(w_lines[i].at, w_start, w_timeout)

\* C1 as stated: the call returns True exactly when no line holding the
\* pattern was read before the wall-clock budget elapsed.
C1_TimedOutIffNoMatchInBudget ==
  w_pc = "returned" =>
    (w_result = TRUE <=>
       ~\E i \in DOMAIN w_lines : LineMatches(i) /\ SeenInBudget(i))

\* C1 amended: the call returns True exactly when no line it read holds the
\* pattern, and then the budget was found elapsed at a loop test; it returns
\* False on the first line that holds the pattern, whatever budget remains
\* and even when that line arrived after the budget elapsed, provided the
\* read began within the budget.
C1_TimedOutIffNoMatchRead ==
  w_pc = "returned" =>
    /\ w_result = TRUE <=> ~\E i \in DOMAIN w_lines : LineMatches(i)
    /\ w_result = TRUE => ~WithinBudget(w_now, w_start, w_timeout)
    /\ w_result = FALSE =>
         /\ w_lines # <<>>
         /\ LineMatches(Len(w_lines))
         /\ \A i \in 1..(Len(w_lines) - 1) : ~LineMatches(i)
    /\ \A i \in DOMAIN w_lines :
         WithinBudget(w_lines[i].begin, w_start, w_timeout)

\* A line holding the pattern arrived after the budget elapsed and the call
\* returned False.
C1_Witness ==
  /\ w_pc = "returned"
  /\ w_result = FALSE
  /\ Len(w_lines) = 2
  /\ ~SeenInBudget(Len(w_lines))
  /\ w_pattern = <<"a", "b">>

\* ---- properties of wait_for_process_or_ctrl_c ----

\* Some signal was delivered while the program was blocked in process.wait().
SignalledInWait ==
  \E i \in DOMAIN s_events : s_events[i].ev = "signal" /\ s_events[i].at = "wait"

Happened(ev) == \E i \in DOMAIN s_events : s_events[i].ev = ev

\* Every "exit" event has a "kill" event before it.
KillBeforeExit ==
  \A i \in DOMAIN s_events :
    s_events[i].ev = "exit" => \E j \in 1..(i - 1) : s_events[j].ev = "kill"

\* C2: a SIGINT or SIGTERM delivered while the function is blocked in
\* process.wait() has the child killed first and the program ended then, and
\* the function never returns to its caller afterwards; a return without an
\* interrupt happens only after the child has exited.
C2_InterruptKillsThenExits ==
  /\ SignalledInWait =>
       /\ s_pc \notin {"print", "returned", "interrupted", "terminated"}
       /\ ~Happened("return")
       /\ s_hpc = "none" => /\ s_pc = "exited"
                            /\ s_child # "running"
  /\ KillBeforeExit
  /\ s_pc = "returned" => s_child = "exited"

\* The child was running, a signal came during the wait, the handler killed
\* the child and ended the program.
C2_Witness ==
  /\ SignalledInWait
  /\ s_pc = "exited"
  /\ s_child = "killed"

\* ---- properties of convert_simpleperf_to_gecko ----

ConvertFinished == c_pc \in {"returned", "raised"}

\* Both stages were run as subprocesses.
BothStagesRan == Len(c_calls) = 2

\* Both stages were run and ended with return code 0.
BothStagesExitedZero ==
  /\ BothStagesRan
  /\ c_calls[1].rc = 0
  /\ c_calls[2].rc = 0

\* C4 as stated: whatever the exit codes, the conversion succeeds exactly when
\* the gecko file exists after both stages were invoked.
C4_SuccessIffFileExists ==
  ConvertFinished => (c_pc = "returned" <=> (BothStagesRan /\ c_file))

\* C4 amended: the conversion succeeds exactly when both stages exit with
\* code 0 and the gecko file exists after stage 2; a non-zero exit code of
\* either stage fails it whether or not the file exists.
C4_SuccessIffExitZeroAndFileExists ==
  ConvertFinished => (c_pc = "returned" <=> (BothStagesExitedZero /\ c_file))

\* Stage 2 ended with a non-zero code, the gecko file exists, and the
\* conversion failed.
C4_Witness ==
  /\ c_pc = "raised"
  /\ BothStagesRan
  /\ c_calls[2].rc # 0
  /\ c_file

\* C5 as stated: with both stages run and the gecko file absent the
\* conversion raises 'Gecko file was not created.'; with both stages exiting
\* 0 and the file there it returns without raising.
C5_RaisesGeckoWhenFileAbsent ==
  ConvertFinished =>
    /\ (BothStagesRan /\ ~c_file) =>
         (c_pc = "raised" /\ c_error = "Gecko file was not created.")
    /\ (BothStagesExitedZero /\ c_file) => (c_pc = "returned" /\ c_error = "none")

\* C5 amended: with both stages run and exited 0 and the gecko file absent
\* the conversion raises 'Gecko file was not created.' (a raw exception, not
\* an error value); with both stages exiting 0 and the file there it returns
\* without raising; when stage 2 exits non-zero the exception raised is
\* run_subprocess's CalledProcessError instead.
C5_RaisesGeckoWhenExitZeroAndFileAbsent ==
  ConvertFinished =>
    /\ (BothStagesExitedZero /\ ~c_file) =>
         (c_pc = "raised" /\ c_error = "Gecko file was not created.")
    /\ (BothStagesExitedZero /\ c_file) => (c_pc = "returned" /\ c_error = "none")
    /\ (BothStagesRan /\ c_calls[2].rc # 0) =>
         (c_pc = "raised" /\ c_error = "CalledProcessError")

\* Both stages exited 0, the gecko file is absent, and the raw exception was
\* raised.
C5_Witness ==
  /\ c_pc = "raised"
  /\ BothStagesExitedZero
  /\ ~c_file
  /\ c_error = "Gecko file was not created."

\* ---- properties of torq.run ----

\* C3: whenever verify_args returns an error, run() prints it and returns
\* with no device object constructed, no command built and no device call
\* issued.
C3_ValidationErrorShortCircuits ==
  r_error # "None" =>
    /\ r_pc \in {"print_error", "returned"}
    /\ r_command = "None"
    /\ r_device = <<>>
    /\ r_devcalls = <<>>
    /\ r_pc = "returned" => r_printed = <<r_error>>

\* The arguments were refused, the error was printed and run() returned.
C3_Witness ==
  /\ r_pc = "returned"
  /\ r_error # "None"
  /\ r_printed = <<r_error>>

\* The subcommands whose arguments go through verify_trigger_args.
TriggerVerified(a) ==
  \/ a.subcommands = "profiler"
  \/ a.subcommands = "config" /\ a.config_subcommand \in {"show", "pull"}

\* Trigger names with stop delays that are neither one nor one per name.
StopDelayMismatch(a) ==
  /\ a.trigger_names # None
  /\ a.trigger_stop_delay_ms # None
  /\ Len(a.trigger_stop_delay_ms) \notin {1, Len(a.trigger_names)}

\* Trigger names with one stop delay, or with one per name.
StopDelayMatch(a) ==
  /\ a.trigger_names # None
  /\ a.trigger_stop_delay_ms # None
  /\ Len(a.trigger_stop_delay_ms) \in {1, Len(a.trigger_names)}

\* Nothing else in the arguments is refused.
OtherwiseValid(a) ==
  /\ a.dur_ms = None
  /\ a.between_dur_ms = None
  /\ a.subcommands = "profiler" => (a.runs = 1 /\ a.profiler = "perfetto")
  /\ (a.subcommands = "config" /\ a.config_subcommand = "pull") =>
       (a.file_path = "None" \/ IsFile(a.file_path))

\* C10: trigger names with a number of stop delays that is neither 1 nor the
\* number of names are refused with a validation error before any device
\* object is made or device call issued; one stop delay is accepted and
\* goes to every name, and one per name is accepted one to one.
C10_StopDelayCount ==
  (TriggerVerified(r_parsed) /\ r_pc \notin {"verify", "raised"}) =>
    /\ StopDelayMismatch(r_parsed) =>
         /\ r_error # "None"
         /\ r_pc \in {"print_error", "returned"}
         /\ r_device = <<>>
         /\ r_devcalls = <<>>
    /\ (StopDelayMatch(r_parsed) /\ OtherwiseValid(r_parsed)) =>
         /\ r_error = "None"
         /\ r_args.trigger_names = r_parsed.trigger_names
         /\ \A i \in DOMAIN r_args.trigger_names :
              StopDelayFor(r_args, i) =
                r_parsed.trigger_stop_delay_ms[
                  IF Len(r_parsed.trigger_stop_delay_ms) = 1 THEN 1 ELSE i]

\* Two trigger names with three stop delays were refused and run() returned
\* without a device.
C10_Witness ==
  /\ r_pc = "returned"
  /\ Len(r_parsed.trigger_names) = 2
  /\ Len(r_parsed.trigger_stop_delay_ms) = 3
  /\ r_error # "None"
  /\ r_device = <<>>

\* Two trigger names with one stop delay were accepted and the command ran.
C10_WitnessAccepted ==
  /\ r_pc = "returned"
  /\ Len(r_parsed.trigger_names) = 2
  /\ Len(r_parsed.trigger_stop_delay_ms) = 1
  /\ r_error = "None"
  /\ Len(r_device) = 1

\* verify_args has accepted the arguments.
Accepted ==
  /\ r_pc \notin {"idle", "verify", "raised", "print_error"}
  /\ r_error = "None"

\* C11: in every argument set verify_args accepts, trigger names are there
\* only without an explicit --dur-ms and only with one run: trigger names
\* with --dur-ms, or with more than one run, are refused.
C11_TriggerNamesExcludeDurMsAndRuns ==
  (r_parsed.trigger_names # None /\ r_pc \notin {"idle", "verify", "raised"}) =>
    /\ Accepted => (r_parsed.dur_ms = None /\ r_args.runs = 1)
    /\ (r_parsed.dur_ms # None \/ r_parsed.runs > 1) => r_error # "None"

\* Trigger names were accepted by verify_args.
C11_Witness ==
  /\ Accepted
  /\ r_parsed.subcommands = "profiler"
  /\ r_parsed.trigger_names # None
  /\ r_pc = "returned"

\* torq.create_profiler_command: the Command that verified profiler
\* arguments make, as far as the session reads it.
CreateProfilerCommand(args) ==
  [profiler |-> args.profiler, runs |-> args.runs,
   trigger |-> IF args.trigger_names = None THEN "none" ELSE args.trigger_mode,
   ui |-> args.ui[1], symbols |-> <<"~", "symbols">>]

AcceptedProfiler == Accepted /\ r_parsed.subcommands = "profiler"

\* C13: the viewer is presented only when the ui flag is set and exactly one
\* run is configured: --ui with runs > 1 is refused, a ui flag not given
\* becomes true for one run and false for several, and so no accepted
\* configuration has ui = true with runs > 1.
C13_UiOnlyWithOneRun ==
  /\ (r_parsed.subcommands = "profiler" /\ r_pc \notin {"idle", "verify", "raised"}
        /\ r_parsed.ui = <<TRUE>> /\ r_parsed.runs > 1) => r_error # "None"
  /\ AcceptedProfiler =>
       /\ r_args.ui \in {<<TRUE>>, <<FALSE>>}
       /\ r_parsed.ui = None => r_args.ui = <<r_args.runs = 1>>
       /\ r_parsed.ui # None => r_args.ui = r_parsed.ui
       /\ ~(r_args.ui = <<TRUE>> /\ r_args.runs > 1)
       /\ LET command == CreateProfilerCommand(r_args)
          IN /\ PresentOrDone(command) = "PRESENT" <=> command.ui
             /\ PresentOrDone(command) = "PRESENT" => command.runs = 1

\* Two runs without a ui flag were accepted, with ui = false.
C13_Witness ==
  /\ AcceptedProfiler
  /\ r_pc = "returned"
  /\ r_parsed.ui = None
  /\ r_args.runs = 2
  /\ r_args.ui = <<FALSE>>

\* verify_trigger_args has nothing against the trigger options of parsed
\* arguments, with the runs and the profiler verify_config_args gives it.
ConfigTriggerOptionsValid(a) ==
  VerifyTriggerArgs([a EXCEPT !.runs = 1, !.profiler = "perfetto"]).error = "None"

RunPastVerify == r_pc \notin {"idle", "verify", "raised"}

\* C19: for `config pull` without a file path verify_config_args sets
\* file_path to ./<config_name>.pbtxt and reports no error (the trigger
\* options being valid); with a file path that is not an existing file it
\* returns a ValidationError and no command is executed.
C19_ConfigPullFilePath ==
  (r_parsed.config_subcommand = "pull" /\ RunPastVerify) =>
    /\ r_parsed.file_path = "None" =>
         /\ r_error # "file_path is not a valid filepath."
         /\ ConfigTriggerOptionsValid(r_parsed) =>
              /\ r_error = "None"
              /\ r_parsed.config_name = "default" =>
                   r_args.file_path = "./default.pbtxt"
              /\ r_parsed.config_name = "lightweight" =>
                   r_args.file_path = "./lightweight.pbtxt"
              /\ r_parsed.config_name = "memory" =>
                   r_args.file_path = "./memory.pbtxt"
    /\ (r_parsed.file_path # "None" /\ ~IsFile(r_parsed.file_path)) =>
         /\ r_error = "file_path is not a valid filepath."
         /\ r_pc \in {"print_error", "returned"}
         /\ r_command = "None"
         /\ r_device = <<>>
         /\ r_devcalls = <<>>
    /\ (r_parsed.file_path # "None" /\ IsFile(r_parsed.file_path)
          /\ r_error = "None") => r_args.file_path = r_parsed.file_path

\* `config pull lightweight` without a file path was accepted with the
\* default path.
C19_Witness ==
  /\ r_pc = "returned"
  /\ r_parsed.config_subcommand = "pull"
  /\ r_parsed.file_path = "None"
  /\ r_error = "None"
  /\ r_args.file_path = "./lightweight.pbtxt"

\* Nothing but --between-dur-ms and --runs could be refused in the
\* arguments.
BetweenOtherwiseValid(a) ==
  /\ a.ui # <<TRUE>>
  /\ VerifyTriggerArgs(a).error = "None"

LogPlaces(ev, run) ==
  {i \in DOMAIN o_log : o_log[i].ev = ev /\ o_log[i].run = run}

SleepPlaces == {i \in DOMAIN o_log : o_log[i].ev = "sleep"}

\* The places in the log where the device failed: a connectivity check or an
\* elevation that went wrong.
DeviceFailurePlaces ==
  {i \in DOMAIN o_log : o_log[i].ev \in {"CONNECT", "ELEVATE"} /\ ~o_log[i].ok}

ResultsWith(outcome) ==
  {k \in DOMAIN o_results : o_results[k].outcome = outcome}

\* The conversion of the run in progress has failed.
ConversionFailed == o_outcome = "conversion-error"

\* C6: a conversion failure in run k is recorded as run k's conversion-error
\* outcome and does not abort the batch: the runs after k still execute and
\* the session summary is still produced.
C6_ConversionFailureDoesNotAbort ==
  /\ ConversionFailed => o_pc # "crashed"
  /\ (o_pc = "end" /\ DeviceFailurePlaces = {}) =>
       /\ Len(o_results) = o_command.runs
       /\ o_summary

\* C7: the sleep between runs is taken runs - 1 times in a session that
\* completes all its runs, each time right after a run that is not the last
\* is done and right before the next run connects; never before the first
\* run and never after the last.
C7_SleepBetweenRuns ==
  /\ \A i \in SleepPlaces :
       /\ i > 1
       /\ o_log[i - 1].ev = "DONE"
       /\ o_log[i - 1].run = o_log[i].run
       /\ o_log[i].run < o_command.runs
       /\ i < Len(o_log) =>
            /\ o_log[i + 1].ev = "CONNECT"
            /\ o_log[i + 1].run = o_log[i].run + 1
  /\ (o_pc = "end" /\ Len(o_results) = o_command.runs) =>
       Cardinality(SleepPlaces) = o_command.runs - 1

\* A session of three runs is over, with two sleeps.
C7_Witness ==
  /\ o_pc = "end"
  /\ o_command.runs = 3
  /\ Len(o_results) = 3
  /\ Cardinality(SleepPlaces) = 2

\* C8: a connectivity or elevation failure ends the session: the run ends at
\* once with a device-error outcome, nothing is retried, no later phase of
\* the run and no later run executes (no elevation after a failed
\* connectivity check), and the session goes to its summary.
C8_DeviceFailureIsFatal ==
  /\ \A i \in DeviceFailurePlaces :
       /\ i = Len(o_log)
       /\ o_pc \in {"summary", "end"}
       /\ Len(o_results) = o_log[i].run
       /\ o_results[Len(o_results)].outcome = "device-error"
       /\ o_run = o_log[i].run
  /\ \A k \in 1..o_run :
       /\ Cardinality(LogPlaces("CONNECT", k)) <= 1
       /\ Cardinality(LogPlaces("ELEVATE", k)) <= 1
  /\ \A k \in ResultsWith("device-error") :
       /\ k = Len(o_results)
       /\ DeviceFailurePlaces # {}

\* The connectivity check of the second of three runs failed and the session
\* ended with two RunResults.
C8_Witness ==
  /\ o_pc = "end"
  /\ o_command.runs = 3
  /\ Len(o_results) = 2
  /\ o_results[2].outcome = "device-error"
  /\ o_results[2].detail = "CONNECT"
  /\ o_summary

\* C9: a timed-out trigger wait is not fatal: the run is recorded as
\* timed-out, its trace is retrieved whenever the capture produced one, the
\* summary is reported and the runs that remain proceed.
C9_TimedOutIsNotFatal ==
  /\ \A k \in ResultsWith("timed-out") :
       LET run == o_results[k].run
           produced == \E i \in LogPlaces("CAPTURE", run) : o_log[i].ok
       IN /\ produced <=> LogPlaces("RETRIEVE", run) # {}
          /\ produced <=> o_results[k].artifact = "trace"
          /\ o_pc # "crashed"
          /\ (o_pc = "end" /\ DeviceFailurePlaces = {}) =>
               (o_summary /\ Len(o_results) = o_command.runs)
  /\ (o_outcome = "timed-out" /\ o_pc \in {"sleep", "summary", "end"}) =>
       ResultsWith("timed-out") # {}

\* The trigger wait timed out with a partial trace, which was retrieved, and
\* the summary was reported.
C9_Witness ==
  /\ o_pc = "end"
  /\ o_summary
  /\ ResultsWith("timed-out") # {}
  /\ o_results[1].artifact = "trace"

\* The runs that have begun and have no RunResult yet.
RunsInProgress ==
  {k \in 1..MaxRuns :
     /\ \E i \in DOMAIN o_log : o_log[i].run = k
     /\ \A i \in DOMAIN o_results : o_results[i].run # k}

\* C14: the runs are strictly sequential: run k+1 does not begin (no CONNECT
\* of run k+1) before the RETRIEVE phase of run k is over, and at most one
\* run is in progress at any time.
C14_RunsSequential ==
  /\ \A j \in DOMAIN o_log :
       (o_log[j].ev = "CONNECT" /\ o_log[j].run > 1) =>
         LET k == o_log[j].run - 1
         IN /\ \E i \in LogPlaces("DONE", k) : i < j
            /\ \A i \in LogPlaces("CAPTURE", k) :
                 o_log[i].ok => \E h \in LogPlaces("RETRIEVE", k) : i < h /\ h < j
            /\ \A i \in DOMAIN o_log : o_log[i].run <= k => i < j
  /\ \A i, j \in DOMAIN o_log : i < j => o_log[i].run <= o_log[j].run
  /\ Cardinality(RunsInProgress) <= 1
  /\ o_pc \notin {"idle"} => RunsInProgress \subseteq {o_run}

\* The second run has connected, after the trace of the first was retrieved.
C14_Witness ==
  /\ LogPlaces("CONNECT", 2) # {}
  /\ LogPlaces("RETRIEVE", 1) # {}
  /\ RunsInProgress = {2}
  /\ o_pc = "CAPTURE"

\* ---- properties of one capture ----

CaptureOver == t_pc \in {"stopped", "retrieved"}

\* The stop delay of the k-th firing observed.
FiringDelay(k) == StopDelayFor(t_spec, t_fired[k].name)

\* The snapshots written so far, among the stops.
SnapshotPlaces == {k \in DOMAIN t_stops : t_stops[k].kind = "snapshot"}

\* C12: in the mode clone the N-th snapshot retrieved in a session is named
\* <base>.N, N from 0: the suffixes follow the firing order, strictly
\* increase and are never used twice; in the modes start and stop and
\* without triggers the file retrieved is named <base>, without a suffix.
C12_CloneSuffixes ==
  /\ t_spec.mode = "clone" =>
       /\ \A k \in DOMAIN t_files :
            /\ t_files[k] = [base |-> "PERFETTO_TRACE_FILE", suffix |-> <<k - 1>>]
            /\ k \in SnapshotPlaces
            /\ t_stops[k].at = t_fired[k].at + FiringDelay(k)
       /\ \A j, k \in DOMAIN t_files :
            j < k => t_files[j].suffix[1] < t_files[k].suffix[1]
       /\ \A k \in DOMAIN t_pulled :
            t_pulled[k] = [base |-> "PERFETTO_TRACE_FILE", suffix |-> <<k - 1>>]
  /\ t_spec.mode # "clone" =>
       /\ Len(t_files) <= 1
       /\ \A k \in DOMAIN t_pulled :
            t_pulled[k] = [base |-> "PERFETTO_TRACE_FILE", suffix |-> None]

\* A clone capture fired twice and both snapshots were retrieved.
C12_Witness ==
  /\ t_pc = "retrieved"
  /\ t_spec.mode = "clone"
  /\ Len(t_fired) = 2
  /\ Len(t_pulled) = 2
  /\ t_pulled[2].suffix = <<1>>

ListPlaces == {i \in DOMAIN k_log : k_log[i].type = "config list"}

\* C16: `config list` asked for twice in the same process prints the same
\* ordered list of names both times, whatever commands ran in between.
C16_ConfigListIdempotent ==
  \A i, j \in ListPlaces :
    /\ k_log[i].printed = k_log[j].printed
    /\ k_log[i].printed = PredefinedConfigNames

\* The list was printed twice, with a show or a pull in between.
C16_Witness ==
  \E i, j \in ListPlaces :
    /\ i + 1 < j
    /\ k_log[i + 1].type \in {"config show", "config pull"}
    /\ k_log[i + 1].error = "None"

\* ---- properties of set_default_subparser ----

RECURSIVE LeadEnd(_, _)
\* The index right after the leading global options and their arguments,
\* from index p on.
LeadEnd(argv, p) ==
  IF p < Len(argv) /\ ArgAt(argv, p) \in GlobalOpts
    THEN LeadEnd(argv, p + GlobalOptNargs(ArgAt(argv, p)) + 1)
    ELSE p

\* The indexes of the non-global arguments: those after the leading global
\* options and their arguments that are not global options.
NonGlobalPlaces(argv) ==
  {i \in LeadEnd(argv, 1)..(Len(argv) - 1) : ArgAt(argv, i) \notin GlobalOpts}

\* A global option other than -h and --help comes after a non-global
\* argument.
GlobalAfterNonGlobal(argv) ==
  \E i \in NonGlobalPlaces(argv), j \in 1..(Len(argv) - 1) :
    /\ i < j
    /\ ArgAt(argv, j) \in GlobalOpts \ HelpOpts

\* argv after the default subcommand went right after the leading global
\* options, unless a subcommand is there.
WithDefaultSubparser(argv) ==
  LET q == LeadEnd(argv, 1)
  IN IF q < Len(argv) /\ ArgAt(argv, q) \in SubparserNames
       THEN argv
       ELSE InsertAt(argv, q, DefaultSubparser)

\* C17: set_default_subparser returns the ValidationError "Global options
\* like <opt> must come before subcommand arguments." whenever a global
\* option other than -h and --help comes after a non-global argument, and
\* no error when -h and --help are the only global options that do.
C17_GlobalOptionAfterNonGlobal ==
  p_pc = "returned" =>
    /\ GlobalAfterNonGlobal(p_orig) <=> p_error # "None"
    /\ p_error # "None" =>
         \E j \in 1..(Len(p_orig) - 1) :
           /\ ArgAt(p_orig, j) \in GlobalOpts \ HelpOpts
           /\ p_error = GlobalOptionError(ArgAt(p_orig, j))

\* --serial came after -d and the error was returned.
C17_Witness ==
  /\ p_pc = "returned"
  /\ p_orig = <<"torq", "-d", "--serial", "0.0.0.0">>
  /\ p_error = "Global options like --serial must come before subcommand arguments."

\* C18 as claimed: whenever no subcommand is right after the leading global
\* options and their arguments, the default subcommand is inserted there
\* and the rest of argv keeps its order; with a subcommand there argv is
\* unchanged.
C18_DefaultInsertedAlways ==
  p_pc = "returned" => p_argv = WithDefaultSubparser(p_orig)

\* C18, amended: when set_default_subparser returns no error, the default
\* subcommand is inserted right after the leading global options and their
\* arguments unless a subcommand is there, the rest of argv keeping its
\* order, and argv is unchanged with a subcommand there; when it returns the
\* ValidationError, argv is unchanged, a subcommand there or not.
C18_DefaultInsertedUnlessError ==
  p_pc = "returned" =>
    /\ p_error = "None" => p_argv = WithDefaultSubparser(p_orig)
    /\ p_error # "None" => p_argv = p_orig

\* The default subcommand went after --serial and its argument.
C18_Witness ==
  /\ p_pc = "returned"
  /\ p_orig = <<"torq", "--serial", "0.0.0.0", "-d">>
  /\ p_argv = <<"torq", "--serial", "0.0.0.0", "profiler", "-d">>
  /\ p_error = "None"

\* ---------------------------------------------------------------------------
\* Conversion: order of the stages

\* The existence check of the output file has been reached or is over.
CheckReached ==
  \/ c_pc \in {"check", "returned"}
  \/ c_error = "Gecko file was not created."

\* The conversion is past stage 1, however it ended.
Stage1Over == c_pc \notin {"idle", "stage1"}

\* C21: in every conversion stage 1 (binary_cache_builder.py on the raw trace
\* and the expanded symbols directory) is the first command invoked and has
\* completed before stage 2 (gecko_profile_generator.py) is invoked, each
\* stage is invoked at most once, and the existence check of the output file
\* is reached only after stage 2 has completed.
C21_StagesInOrder ==
  /\ Len(c_calls) <= 2
  /\ Stage1Over => Len(c_calls) >= 1
  /\ Len(c_calls) >= 1 =>
       /\ c_calls[1].cmd.tool = "binary_cache_builder.py"
       /\ c_calls[1].cmd.input = c_args.raw
       /\ c_calls[1].cmd.lib = ExpandUser(c_args.symbols)
  /\ Len(c_calls) = 2 => c_calls[2].cmd.tool = "gecko_profile_generator.py"
  /\ c_pc = "stage2" => Len(c_calls) = 1
  /\ CheckReached => Len(c_calls) = 2

C21_Witness ==
  /\ c_pc = "returned"
  /\ Len(c_calls) = 2
  /\ c_calls[1].cmd.tool = "binary_cache_builder.py"
  /\ c_calls[2].cmd.tool = "gecko_profile_generator.py"

\* C26: when stage 1 (binary_cache_builder) exits with a non-zero code,
\* run_subprocess raises CalledProcessError and the conversion is over: stage
\* 2 is never invoked and the existence check of the output file is never
\* reached.
C26_Stage1FailureAborts ==
  (Len(c_calls) >= 1 /\ c_calls[1].rc # EX_SUCCESS) =>
    /\ Len(c_calls) = 1
    /\ c_pc = "raised"
    /\ c_error = "CalledProcessError"
    /\ ~CheckReached

C26_Witness ==
  /\ c_pc = "raised"
  /\ Len(c_calls) = 1
  /\ c_calls[1].cmd.tool = "binary_cache_builder.py"
  /\ c_calls[1].rc = EX_NOTFOUND

\* ---------------------------------------------------------------------------
\* run_subprocess

\* The call is over, one way or the other.
SubprocessOver == u_pc \in {"returned", "raised"}

\* C22: run_subprocess raises for every non-zero return code that is not in
\* ignore_returncodes and never raises for return code 0 or for a listed
\* code; when it does not raise it returns the completed-process output if
\* capture_output is true and None otherwise.
C22_RaisesExactlyOnUnlistedNonZero ==
  SubprocessOver =>
    /\ u_pc = "raised" <=>
         (u_returncode[1] # 0 /\ u_returncode[1] \notin u_ignore)
    /\ u_pc = "raised" => u_value = "CalledProcessError"
    /\ u_pc = "returned" =>
         u_value = (IF u_capture THEN "output" ELSE "None")

C22_Witness ==
  /\ u_pc = "returned"
  /\ u_returncode = <<EX_FAILURE>>
  /\ EX_FAILURE \in u_ignore
  /\ u_capture
  /\ u_value = "output"

\* ---------------------------------------------------------------------------
\* verify_config_args: runs and profiler of show and pull

\* The parsed arguments are those of `config show` or `config pull`.
ShowOrPull == r_parsed.config_subcommand \in {"show", "pull"}

\* What verify_trigger_args is given for the parsed arguments of show or pull
\* that got past the file path: runs = 1 and profiler = "perfetto".
ForcedArgs ==
  [r_parsed EXCEPT
     !.runs = 1, !.profiler = "perfetto",
     !.file_path = IF r_parsed.config_subcommand = "pull"
                      /\ r_parsed.file_path = "None"
                     THEN DefaultFilePath(r_parsed.config_name)
                     ELSE r_parsed.file_path]

\* C23: for config show and config pull, whatever the arguments, trigger
\* verification is given runs = 1 and
\* profiler = "perfetto" and its verdict is the verdict of verify_args, so
\* every accepted show or pull argument set has runs = 1 and
\* profiler = "perfetto"; for config list the arguments are returned
\* unchanged with no error.
C23_ShowPullForceRunsAndProfiler ==
  RunPastVerify =>
    /\ (ShowOrPull /\ r_error # "file_path is not a valid filepath.") =>
         r_error = VerifyTriggerArgs(ForcedArgs).error
    /\ (ShowOrPull /\ Accepted) =>
         /\ r_args.runs = 1
         /\ r_args.profiler = "perfetto"
         /\ r_args = VerifyTriggerArgs(ForcedArgs).args
    /\ r_parsed.config_subcommand = "list" =>
         /\ r_error = "None"
         /\ r_args = r_parsed

\* `config show` with trigger names, parsed without runs and profiler, was
\* accepted.
C23_Witness ==
  /\ Accepted
  /\ r_parsed.config_subcommand = "show"
  /\ r_parsed.runs = 0
  /\ r_parsed.profiler = "None"
  /\ r_parsed.trigger_names # None
  /\ r_args.runs = 1
  /\ r_args.profiler = "perfetto"

\* ---------------------------------------------------------------------------
\* run(): one device, one execute

\* The serial run() gives AdbDevice for the parsed arguments.
GivenSerial ==
  IF r_parsed.serial # None THEN r_parsed.serial[1] ELSE "None"

\* command.execute(device) has returned.
ExecuteReturned ==
  \/ r_pc = "print_exec_error"
  \/ r_pc = "returned" /\ r_error = "None"

C24_DeviceState ==
  /\ Len(r_device) <= 1
  /\ Len(r_device) = 1 => (Accepted /\ r_device[1] = GivenSerial)
  /\ (r_pc = "execute" \/ ExecuteReturned) => Len(r_device) = 1
  /\ ~ExecuteReturned => (r_devcalls = <<>> /\ r_exec_error = "None")
  /\ r_error # "None" => (r_device = <<>> /\ r_devcalls = <<>>)
  /\ (r_pc = "returned" /\ r_error = "None") =>
       r_printed = (IF r_exec_error # "None" THEN <<r_exec_error>> ELSE <<>>)

C24_ExecuteStep ==
  /\ r_pc = "execute" => ExecuteReturned'
  /\ ExecuteReturned =>
       /\ ExecuteReturned'
       /\ r_pc' \notin {"device", "execute"}
       /\ UNCHANGED <<r_device, r_devcalls, r_exec_error>>

\* C24: on every invocation of run() whose arguments pass validation the
\* device is constructed exactly once, with the given serial or None when
\* there is none, and only after validation has succeeded; command.execute
\* is called exactly once, with that device, and once it has returned
\* neither the device nor execute is gone through again: an error it
\* returned is printed, once, and run() returns.
C24_OneDeviceOneExecute == []C24_DeviceState /\ [][C24_ExecuteStep]_vars

\* run() with --serial has returned after execute returned an error, which
\* was printed.
C24_Witness ==
  /\ r_pc = "returned"
  /\ r_parsed.serial = <<"test-serial">>
  /\ r_device = <<"test-serial">>
  /\ r_exec_error # "None"
  /\ r_printed = <<r_exec_error>>

\* ---------------------------------------------------------------------------
\* execute_show_or_pull_command: the device and the effects

\* The command executed last was a show or a pull.
LastShowOrPull == k_last.type \in {"config show", "config pull"}

\* C25: execute_show_or_pull_command treats an unreachable device as not
\* fatal: when check_device_connection returns an error, neither root_device
\* nor get_android_sdk_version is called, the config is built with
\* ANDROID_SDK_VERSION_T and the connection error is not what the command
\* returns; when it returns no error the device calls are
\* check_device_connection, root_device, get_android_sdk_version, in this
\* order and once each, and the config is built with the version the device
\* gave.
C25_UnreachableDeviceNotFatal ==
  LastShowOrPull =>
    /\ k_last.connection # "None" =>
         /\ k_last.calls = <<"check_device_connection">>
         /\ k_last.sdk = ANDROID_SDK_VERSION_T
         /\ k_last.error # k_last.connection
    /\ k_last.connection = "None" =>
         /\ k_last.calls = <<"check_device_connection", "root_device",
                             "get_android_sdk_version">>
         /\ k_last.sdk \in DeviceSdkVersions

\* A show with the device unreachable printed the config and returned no
\* error.
C25_Witness ==
  /\ k_last.type = "config show"
  /\ k_last.connection # "None"
  /\ k_last.calls = <<"check_device_connection">>
  /\ k_last.sdk = ANDROID_SDK_VERSION_T
  /\ k_last.error = "None"
  /\ k_last.printed # <<>>

\* C30: when the config builder returns an error, execute_show_or_pull_command
\* returns that error, writes no file and prints nothing; a file is written
\* only by config pull and something is printed only by config show, each
\* only when the builder returned no error.
C30_BuilderErrorNoEffects ==
  LastShowOrPull =>
    /\ k_last.error = "config builder error" =>
         /\ k_last.written = "None"
         /\ k_last.printed = <<>>
         /\ k_pc = "ready"
         /\ k_log[Len(k_log)].error = "config builder error"
         /\ k_log[Len(k_log)].type = k_last.type
    /\ k_last.written # "None" =>
         /\ k_last.type = "config pull"
         /\ k_last.error # "config builder error"
    /\ k_last.printed # <<>> =>
         /\ k_last.type = "config show"
         /\ k_last.error = "None"

\* A pull whose builder returned an error wrote no file and returned the
\* error.
C30_Witness ==
  /\ k_last.type = "config pull"
  /\ k_last.error = "config builder error"
  /\ k_last.written = "None"
  /\ k_log # <<>>
  /\ k_log[Len(k_log)].error = "config builder error"

\* ---------------------------------------------------------------------------
\* wait_for_output: where the budget is tested

\* The call is past its first loop test.
PastFirstTest == w_pc \in {"read", "returned", "raised"} \/ w_lines # <<>>

C27_BudgetState ==
  /\ (w_timeout <= 0 /\ PastFirstTest) =>
       /\ w_pc = "returned"
       /\ w_result = TRUE
       /\ w_lines = <<>>
  /\ \A i \in DOMAIN w_lines :
       WithinBudget(w_lines[i].begin, w_start, w_timeout)
  /\ (w_pc = "returned" /\ \E i \in DOMAIN w_lines : LineMatches(i)) =>
       w_result = FALSE

C27_BudgetStep ==
  /\ w_pc = "read" => ~(w_pc' = "returned" /\ w_result' = TRUE)
  /\ (w_pc' = "returned" /\ w_result' = TRUE) =>
       (w_pc = "test" /\ UNCHANGED <<w_now, w_lines>>)

\* C27: wait_for_output tests the time budget only before it starts a line
\* read and never after one: with timeout <= 0 it returns True without
\* reading a line, every read starts within the budget, a line read that
\* holds the pattern yields False even when the budget elapsed while the read
\* was blocked, and True is returned only from the loop test, never while a
\* read is blocked.
C27_BudgetTestedOnlyBeforeRead == []C27_BudgetState /\ [][C27_BudgetStep]_vars

\* A read that began within the budget handed back a matching line after
\* the budget had elapsed, and the call returned False.
C27_Witness ==
  /\ w_pc = "returned"
  /\ w_result = FALSE
  /\ Len(w_lines) = 1
  /\ LineMatches(1)
  /\ WithinBudget(w_lines[1].begin, w_start, w_timeout)
  /\ w_lines[1].at - w_start > w_timeout

\* ---------------------------------------------------------------------------
\* wait_for_process_or_ctrl_c: the handlers after the return

\* The places of s_events where a signal came after the function had
\* returned.
SignalsAfterReturn ==
  {i \in DOMAIN s_events :
     s_events[i].ev = "signal" /\ s_events[i].at = "returned"}

C28_HandlersState ==
  /\ Happened("return") =>
       /\ \A sig \in Signals : s_handler[sig] = "handler"
       /\ s_pc \in {"returned", "exited"}
       /\ s_child = "exited"
  /\ SignalsAfterReturn # {} =>
       /\ s_hpc # "none" \/ s_pc = "exited"
       /\ s_pc = "exited" =>
            \E i \in SignalsAfterReturn :
              \E j \in (i + 1)..Len(s_events) :
                /\ s_events[j].ev = "kill"
                /\ \E k \in (j + 1)..Len(s_events) : s_events[k].ev = "exit"

C28_HandlersStep ==
  (s_pc = "returned" /\ Len(s_events') > Len(s_events)
     /\ s_events'[Len(s_events')].ev = "signal") =>
    /\ s_hpc' = "print"
    /\ s_pc' = "returned"

\* C28: wait_for_process_or_ctrl_c never restores the previous handlers:
\* once it has returned (the child has exited then) both signals keep
\* signal_handler, a SIGINT or SIGTERM delivered afterwards starts it and not
\* the default disposition, and the handler calls kill on the exited process
\* and ends the program with sys.exit().
C28_HandlersNeverRestored == []C28_HandlersState /\ [][C28_HandlersStep]_vars

\* The function returned, a signal came afterwards, the handler called kill
\* on the exited child and ended the program.
C28_Witness ==
  /\ SignalsAfterReturn # {}
  /\ s_pc = "exited"
  /\ s_child = "exited"
  /\ Happened("return")
  /\ Happened("kill")

\* ---------------------------------------------------------------------------
\* set_default_subparser, applied again

\* A call on the argv that an earlier call, which returned no error, left
\* has returned.
AppliedAgain == p_calls >= 1 /\ p_pc = "returned"

\* C29 as claimed: a second application, to the argv produced by a first
\* call that returned no error, returns no error and leaves argv unchanged.
C29_Idempotent ==
  AppliedAgain => (p_error = "None" /\ p_argv = p_orig)

\* C29, amended: a second application, to the argv produced by a first call
\* that returned no error, returns no error; it leaves argv unchanged when
\* the position right after the leading global options and their arguments
\* is inside that argv, and appends the default subcommand once more when it
\* is not (argv ended with a leading --serial lacking its argument, and the
\* first call appended the default subcommand as that argument); a third
\* application leaves argv unchanged in every case.
C29_IdempotentWithinArgv ==
  AppliedAgain =>
    /\ p_error = "None"
    /\ LeadEnd(p_orig, 1) < Len(p_orig) => p_argv = p_orig
    /\ LeadEnd(p_orig, 1) >= Len(p_orig) =>
         /\ p_calls = 1
         /\ p_orig[Len(p_orig)] = DefaultSubparser
         /\ p_orig[Len(p_orig) - 1] = "--serial"
         /\ p_argv = Append(p_orig, DefaultSubparser)
    /\ p_calls >= 2 => p_argv = p_orig

\* The second application left `torq --serial 0.0.0.0 profiler -d` as the
\* first one had made it.
C29_Witness ==
  /\ AppliedAgain
  /\ p_calls = 1
  /\ p_orig = <<"torq", "--serial", "0.0.0.0", "profiler", "-d">>
  /\ p_argv = p_orig
  /\ p_error = "None"


====
